---- MODULE Spec2Model ----
(***************************************************************************)
(* Streaming sharded checkpoint I/O of the model zoo                       *)
(* (common/pytorch/model_utils/checkpoint_converters/                      *)
(* streaming_checkpoints.py): StreamingShardedHFWriter and                 *)
(* StreamingShardedHFReader, with the checkpoint directory as part of the  *)
(* state.  A Python exception is modelled by the state the object is left  *)
(* in at the raise plus the exception's name in last_call.exc.             *)
(***************************************************************************)
EXTENDS Integers, Sequences, FiniteSets, TLC

VARIABLES
    \* ---- StreamingShardedHFWriter fields
    weight_map,              \* key -> shard filename
    current_file_number,
    last_file_number,
    total_shards_finalized,
    active_file_name,
    active_file_data,        \* key -> tensor of the shard held in memory
    data_bound,              \* FALSE after `del self.active_file_data` with no rebinding
    file_size,               \* shard filename -> tracked bytes
    dirty,
    max_shard_size,
    \* ---- the checkpoint directory
    files,                   \* shard filename -> pickled dict (key -> tensor)
    index_file,              \* <<>> while absent, else <<manifest>>
    \* ---- history of the calls made on the writer
    last_call,               \* the call that produced this state and how it ended
    latest,                  \* key -> value of the last __setitem__ that returned
    clean_since_save,        \* a save() returned and no __setitem__ was called since
    \* ---- StreamingShardedHFReader fields and its directory
    r_weight_map,
    r_file2keys,             \* sequence of <<file, keys>> in sorted file order
    r_active_file_name,      \* <<>> for None, else <<file>>
    r_active_file_data,      \* <<>> for None, else <<dict>>
    r_data_bound,            \* FALSE while the attribute active_file_data is unbound
    r_files,                 \* shard filename -> pickled dict (key -> tensor)
    r_manifest,              \* weight_map of the index file of the directory
    r_status,                \* "none", "ready", or the exception __init__ raised
    r_trace,                 \* drop/load events of the last __getitem__
    r_last_call,             \* the last call on the reader and how it ended
    r_last_key,              \* <<>>, else <<key of the last __getitem__ that returned>>
    r_yielded,               \* keys yielded by the last items()/values() pass
    \* ---- two processes constructing a writer on one path
    c_kind,                  \* the writer class the two processes construct
    c_path,                  \* what the file system holds at the path
    c_proc,                  \* process -> position in its constructor
    c_written,               \* what was written under the path, and by whom
    \* ---- StreamingCSWriter and its views
    cs_state,                \* self.state of the writer: path -> kind of node
    cs_h5,                   \* the H5 file: dotted name -> tensor
    cs_last_call,            \* the last call on a view and how it ended
    cs_last_value,           \* the value of the last __setitem__
    cs_sets,                 \* the number of __setitem__ calls made
    \* ---- a call of convert_file_size_to_int
    sz_size,                 \* the argument: an int or a str
    sz_result,               \* what the call returned or raised
    \* ---- conversions of attention tensors (Llama, Falcon)
    cv_config,               \* the conversion run and the CS config it is given
    cv_in,                   \* the state dict given to the first conversion
    cv_mid,                  \* new_state_dict of the first conversion
    cv_out,                  \* new_state_dict of the conversion back
    cv_exc,                  \* the exceptions of the conversions made so far
    \* ---- headless checkpoint conversion HF -> CS
    hd_config,               \* the converter and the two configs
    hd_old,                  \* old_state_dict
    hd_new,                  \* new_state_dict
    hd_call,                 \* the step made last and how it ended
    \* ---- a config conversion HF -> CS and CS -> HF (Llama, Falcon)
    cf_conv,                 \* the config converter class
    cf_hf,                   \* <<>>, else <<the HF config given>>
    cf_cs,                   \* <<>>, else <<the CS config given or produced>>
    cf_out,                  \* <<>>, else <<the HF config produced from cf_cs>>
    cf_call,                 \* the conversion made last and how it ended
    \* ---- GLOBAL_CALLBACK_REGISTRY and the callbacks of a process
    rg_registry,             \* handle id -> callback instance
    rg_next_id,              \* RemovableHandle.next_id
    rg_class_handle,         \* class -> <<>>, else <<id of _global_callback_handle>>
    rg_inst_handle,          \* instance -> <<>>, else <<id of its own handle>>
    rg_blocks,               \* instance -> what each open with-block registered
    rg_call,                 \* the call made last and how it ended
    \* ---- RestartableDataLoader on every worker of a run
    dl_dataset,              \* the seed and the shuffle flag of the dataset
    dl_streamed,             \* worker -> worker_state.samples_streamed
    dl_previous,             \* worker -> previous_samples_streamed of its loader
    dl_sampler,              \* worker -> <<>>, else <<state given to its sampler>>
    dl_ckpt,                 \* <<>>, else <<the aggregated state dict saved last>>
    dl_total,                \* samples streamed globally in the run so far
    dl_call,                 \* the call made last and how it ended
    \* ---- a state dict conversion HF -> CS and back (Llama)
    sd_converter,            \* the checkpoint converter class
    sd_run,                  \* <<>>, else <<the configs and drop_unmatched_keys>>
    sd_hf,                   \* the HF state dict given: key -> tensor
    sd_cs,                   \* <<>>, else <<what convert HF -> CS produced>>
    sd_back,                 \* <<>>, else <<what convert CS -> HF produced>>
    sd_call                  \* the conversion made last and how it ended

writerVars == <<weight_map, current_file_number, last_file_number,
                total_shards_finalized, active_file_name, active_file_data,
                data_bound, file_size, dirty, max_shard_size, files,
                index_file, last_call, latest,
                clean_since_save>>
readerVars == <<r_weight_map, r_file2keys, r_active_file_name,
                r_active_file_data, r_data_bound, r_files, r_manifest,
                r_status, r_trace, r_last_call, r_last_key, r_yielded>>
ctorVars == <<c_kind, c_path, c_proc, c_written>>
csVars == <<cs_state, cs_h5, cs_last_call, cs_last_value, cs_sets>>
sizeVars == <<sz_size, sz_result>>
convVars == <<cv_config, cv_in, cv_mid, cv_out, cv_exc>>
headVars == <<hd_config, hd_old, hd_new, hd_call>>
configVars == <<cf_conv, cf_hf, cf_cs, cf_out, cf_call>>
registryVars == <<rg_registry, rg_next_id, rg_class_handle, rg_inst_handle,
                  rg_blocks, rg_call>>
loaderVars == <<dl_dataset, dl_streamed, dl_previous, dl_sampler, dl_ckpt, dl_total,
                dl_call>>
stateDictVars == <<sd_converter, sd_run, sd_hf, sd_cs, sd_back, sd_call>>
laterVars == <<configVars, registryVars, loaderVars, stateDictVars>>
otherVars == <<ctorVars, csVars, sizeVars, convVars, headVars, laterVars>>
besidesConfig == <<writerVars, readerVars, ctorVars, csVars, sizeVars,
                   convVars, headVars, registryVars, loaderVars,
                   stateDictVars>>
besidesRegistry == <<writerVars, readerVars, ctorVars, csVars, sizeVars,
                     convVars, headVars, configVars, loaderVars,
                     stateDictVars>>
besidesLoader == <<writerVars, readerVars, ctorVars, csVars, sizeVars,
                   convVars, headVars, configVars, registryVars,
                   stateDictVars>>
besidesStateDict == <<writerVars, readerVars, ctorVars, csVars, sizeVars,
                      convVars, headVars, configVars, registryVars,
                      loaderVars>>
besidesCtor == <<writerVars, readerVars, csVars, sizeVars, convVars, headVars,
                 laterVars>>
besidesCS == <<writerVars, readerVars, ctorVars, sizeVars, convVars, headVars,
                 laterVars>>
besidesSize == <<writerVars, readerVars, ctorVars, csVars, convVars, headVars,
                 laterVars>>
besidesConv == <<writerVars, readerVars, ctorVars, csVars, sizeVars, headVars,
                 laterVars>>
besidesHead == <<writerVars, readerVars, ctorVars, csVars, sizeVars, convVars,
                 laterVars>>
vars == <<writerVars, readerVars, otherVars>>

----------------------------------------------------------------------------
(* Bounds of the model *)

NumKeys == 3
ShardSizeLimit == 100

Keys == 1..NumKeys

\* A tensor is known by its element count and dtype (and so its byte size).
Tensor(n, d) == [numel |-> n, dtype |-> d]

Tensors == { Tensor(15, "float32"),    \* 60 bytes
             Tensor(397, "bool"),      \* ceil(397 / 8) = 50 bytes
             Tensor(30, "float32") }   \* 120 bytes: alone above the limit

----------------------------------------------------------------------------
(* Helpers *)

EmptyDict == [k \in {} |-> 0]

Put(f, k, v) == [x \in (DOMAIN f) \cup {k} |-> IF x = k THEN v ELSE f[x]]

Range(f) == { f[x] : x \in DOMAIN f }

RECURSIVE SumOver(_, _)
SumOver(f, S) ==
    IF S = {} THEN 0
    ELSE LET x == CHOOSE y \in S : TRUE IN f[x] + SumOver(f, S \ {x})

\* int argument of convert_file_size_to_int: returned as is
convert_file_size_to_int(size) == size

\* bits / 8 as the pair <<numerator, denominator>>
dtype_byte_size(dtype) ==
    CASE dtype = "bool"    -> <<1, 8>>
      [] dtype = "float16" -> <<16, 8>>
      [] dtype = "float32" -> <<32, 8>>
      [] dtype = "int8"    -> <<8, 8>>

\* math.ceil(value.numel() * dtype_byte_size(value.dtype))
WeightSize(value) ==
    LET b == dtype_byte_size(value.dtype)
    IN  (value.numel * b[1] + b[2] - 1) \div b[2]

\* shard numbers written as they are counted in the code, from 0
get_filename_from_zero(file_number, total_shards) ==
    [prefix |-> "pytorch_model", number |-> file_number,
     of |-> total_shards, ext |-> "bin"]

\* f"pytorch_model-{file_number+1:05d}-of-{total_shards:05d}.bin"
get_filename(file_number, total_shards) ==
    [prefix |-> "pytorch_model", number |-> file_number + 1,
     of |-> total_shards, ext |-> "bin"]

----------------------------------------------------------------------------
(* StreamingShardedHFWriter.  The methods are operators on the record of   *)
(* the object's fields and its directory; exc names the exception a call   *)
(* ended with ("none" when it returned).                                    *)

Self ==
    [weight_map |-> weight_map,
     current_file_number |-> current_file_number,
     last_file_number |-> last_file_number,
     total_shards_finalized |-> total_shards_finalized,
     active_file_name |-> active_file_name,
     active_file_data |-> active_file_data,
     data_bound |-> data_bound,
     file_size |-> file_size,
     dirty |-> dirty,
     max_shard_size |-> max_shard_size,
     files |-> files,
     index_file |-> index_file,
     exc |-> "none",
     warned |-> FALSE,
     ret |-> <<>>]

Raise(s, e) == [s EXCEPT !.exc = e]

\* __init__: os.mkdir of a fresh checkpoint_dir, then the fields
WriterInit(shard_size) ==
    /\ weight_map = EmptyDict
    /\ current_file_number = 0
    /\ last_file_number = 0
    /\ total_shards_finalized = 0
    /\ active_file_name = get_filename(0, 0)
    /\ active_file_data = EmptyDict
    /\ data_bound = TRUE
    /\ file_size = Put(EmptyDict, get_filename(0, 0), 0)
    /\ dirty = FALSE
    /\ max_shard_size = convert_file_size_to_int(shard_size)
    /\ files = EmptyDict
    /\ index_file = <<>>

\* a flush that clears the flag without writing the shard
FlushWithoutWrite(s) == [s EXCEPT !.dirty = FALSE]

_flush(s) ==
    IF s.dirty
    THEN IF ~s.data_bound
         THEN Raise(s, "AttributeError")
         ELSE [s EXCEPT !.files = Put(s.files, s.active_file_name,
                                      s.active_file_data),
                        !.dirty = FALSE]
    ELSE s

_switch_shards(s, new_file) ==
    LET s1 == _flush(s) IN
    IF s1.exc # "none" THEN s1
    ELSE
    LET s2 == [s1 EXCEPT !.active_file_name = new_file] IN
    IF ~s2.data_bound
    THEN Raise(s2, "AttributeError")      \* `self.active_file_data is not None`
    ELSE IF new_file \notin DOMAIN s2.files
    THEN Raise([s2 EXCEPT !.data_bound = FALSE, !.active_file_data = EmptyDict],
               "FileNotFoundError")       \* torch.load after the del
    ELSE [s2 EXCEPT !.active_file_data = s2.files[new_file]]

__getitem__(s, key) ==
    IF key \notin DOMAIN s.weight_map THEN Raise(s, "KeyError")
    ELSE
    LET file == s.weight_map[key]
        s1 == IF file # s.active_file_name THEN _switch_shards(s, file) ELSE s
    IN  IF s1.exc # "none" THEN s1
        ELSE IF ~s1.data_bound THEN Raise(s1, "AttributeError")
        ELSE IF key \notin DOMAIN s1.active_file_data THEN Raise(s1, "KeyError")
        ELSE [s1 EXCEPT !.ret = <<s1.active_file_data[key]>>]

\* the limit tested against the shard's size before the new weight is added
TipsOverIgnoringWeight(size, weight_size, limit) == size > limit

\* a weight that exactly fills the shard taken as tipping it over
TipsOverAtLimit(size, weight_size, limit) == size + weight_size >= limit

\* "Create a new shard if this new weight tips us over the limit"
TipsOver(size, weight_size, limit) == size + weight_size > limit

\* the spill inside the branch for a new key
OpenNewShard(s) ==
    LET s1 == _flush(s) IN
    IF s1.exc # "none" THEN s1
    ELSE
    LET s2 == [s1 EXCEPT !.last_file_number = @ + 1,
                         !.current_file_number = s1.last_file_number + 1]
    IN  IF ~s2.data_bound THEN Raise(s2, "AttributeError")
        ELSE
        LET name == get_filename(s2.current_file_number,
                                 s2.total_shards_finalized)
        IN  [s2 EXCEPT !.active_file_data = EmptyDict,
                       !.active_file_name = name,
                       !.file_size = Put(@, name, 0)]

\* the branch of __setitem__ for a key not yet in weight_map
AddKey(s, key, value) ==
    LET weight_size == WeightSize(value)
        s1 == IF s.current_file_number # s.last_file_number
              THEN _switch_shards(s, get_filename(s.last_file_number,
                                                  s.total_shards_finalized))
              ELSE s
    IN  IF s1.exc # "none" THEN s1
        ELSE IF s1.active_file_name \notin DOMAIN s1.file_size
        THEN Raise(s1, "KeyError")
        ELSE
        LET s2 == IF TipsOver(s1.file_size[s1.active_file_name], weight_size,
                              s1.max_shard_size)
                  THEN OpenNewShard(s1)
                  ELSE s1
        IN  IF s2.exc # "none" THEN s2
            ELSE IF ~s2.data_bound THEN Raise(s2, "AttributeError")
            ELSE [s2 EXCEPT
                    !.active_file_data = Put(@, key, value),
                    !.weight_map = Put(@, key, s2.active_file_name),
                    !.file_size[s2.active_file_name] = @ + weight_size,
                    !.dirty = TRUE]

\* an update handled like a new key: it may spill into a new shard
UpdateKeyAsAdd(s, key, value) == AddKey(s, key, value)

\* an update that adds the new size without taking the old one off
UpdateKeyNoDelta(s, key, value) ==
    LET file == s.weight_map[key]
        s1 == IF s.active_file_name # file THEN _switch_shards(s, file) ELSE s
    IN  IF s1.exc # "none" THEN s1
        ELSE [s1 EXCEPT
                !.active_file_data = Put(@, key, value),
                !.weight_map = Put(@, key, s1.active_file_name),
                !.file_size[s1.active_file_name] = @ + WeightSize(value),
                !.dirty = TRUE]

\* the branch of __setitem__ for a key already in weight_map
UpdateKey(s, key, value) ==
    LET file == s.weight_map[key]
        s1 == IF s.active_file_name # file THEN _switch_shards(s, file) ELSE s
    IN  IF s1.exc # "none" THEN s1
        ELSE IF ~s1.data_bound THEN Raise(s1, "AttributeError")
        ELSE IF key \notin DOMAIN s1.active_file_data THEN Raise(s1, "KeyError")
        ELSE
        LET old_value == s1.active_file_data[key]
            old_weight_size == WeightSize(old_value)
            weight_size == WeightSize(value)
            delta_size == weight_size - old_weight_size
        IN  IF s1.active_file_name \notin DOMAIN s1.file_size
            THEN Raise(s1, "KeyError")
            ELSE [s1 EXCEPT
                    !.warned = TipsOver(s1.file_size[s1.active_file_name],
                                        delta_size, s1.max_shard_size),
                    !.active_file_data = Put(@, key, value),
                    !.weight_map = Put(@, key, s1.active_file_name),
                    !.file_size[s1.active_file_name] = @ + delta_size,
                    !.dirty = TRUE]

__setitem__(s, key, value) ==
    IF key \in DOMAIN s.weight_map
    THEN UpdateKey(s, key, value)
    ELSE AddKey(s, key, value)

\* dict without key k (the source name of an os.rename)
Drop(f, k) == [x \in (DOMAIN f) \ {k} |-> f[x]]

\* Step 2 of save: os.rename of shard i, i+1, .. new_total_shards-1 in turn;
\* the first missing source raises and leaves the earlier renames done
RECURSIVE RenameFrom(_, _, _)
RenameFrom(s, i, new_total_shards) ==
    IF i >= new_total_shards THEN s
    ELSE
    LET prev_file == get_filename(i, s.total_shards_finalized)
        new_file == get_filename(i, new_total_shards)
    IN  IF prev_file \notin DOMAIN s.files
        THEN Raise(s, "FileNotFoundError")
        ELSE RenameFrom([s EXCEPT !.files = Put(Drop(@, prev_file), new_file,
                                                s.files[prev_file])],
                        i + 1, new_total_shards)

\* step 3 left out: the data structures keep the previous names
RenamedKeepsName(prev_file, new_total_shards) == prev_file

\* file_renames[prev_file] of step 3, for prev_file a key of file_renames
Renamed(prev_file, new_total_shards) ==
    get_filename(prev_file.number - 1, new_total_shards)

\* the keys of file_renames (step 1)
RenameKeys(s, new_total_shards) ==
    { get_filename(i, s.total_shards_finalized) : i \in 0..(new_total_shards - 1) }

\* steps 1-3 without step 4: total_shards_finalized keeps its value
FinalizeKeepsTotal(s, new_total_shards) ==
    LET s1 == RenameFrom(s, 0, new_total_shards) IN
    IF s1.exc # "none" THEN s1
    ELSE [s1 EXCEPT
            !.weight_map = [k \in DOMAIN s1.weight_map |->
                              Renamed(s1.weight_map[k], new_total_shards)],
            !.file_size = [f \in { Renamed(g, new_total_shards) :
                                     g \in DOMAIN s1.file_size } |->
                              LET g == CHOOSE h \in DOMAIN s1.file_size :
                                         Renamed(h, new_total_shards) = f
                              IN  s1.file_size[g]]]

\* "Finalize total number of shards": steps 1-4 of save
Finalize(s, new_total_shards) ==
    LET s1 == RenameFrom(s, 0, new_total_shards) IN
    IF s1.exc # "none" THEN s1
    ELSE IF ~(Range(s1.weight_map) \subseteq RenameKeys(s1, new_total_shards))
    THEN Raise(s1, "KeyError")
    ELSE
    LET s2 == [s1 EXCEPT !.weight_map =
                 [k \in DOMAIN s1.weight_map |->
                    Renamed(s1.weight_map[k], new_total_shards)]]
    IN  IF ~(DOMAIN s2.file_size \subseteq RenameKeys(s2, new_total_shards))
        THEN Raise(s2, "KeyError")
        ELSE [s2 EXCEPT
                !.file_size = [f \in { Renamed(g, new_total_shards) :
                                         g \in DOMAIN s2.file_size } |->
                                  LET g == CHOOSE h \in DOMAIN s2.file_size :
                                             Renamed(h, new_total_shards) = f
                                  IN  s2.file_size[g]],
                !.total_shards_finalized = new_total_shards]

save(s) ==
    LET s1 == _flush(s) IN
    IF s1.exc # "none" THEN s1
    ELSE
    LET total_size == SumOver(s1.file_size, DOMAIN s1.file_size)
        new_total_shards == s1.last_file_number + 1
        s2 == IF s1.total_shards_finalized # new_total_shards
              THEN Finalize(s1, new_total_shards)
              ELSE s1
    IN  IF s2.exc # "none" THEN s2
        ELSE [s2 EXCEPT !.index_file =
                <<[metadata |-> [total_size |-> total_size],
                   weight_map |-> s2.weight_map]>>]

----------------------------------------------------------------------------
(* The calls a client makes on one writer *)

\* the fields of the object and the directory after a call ended in state s
Becomes(s) ==
    /\ weight_map' = s.weight_map
    /\ current_file_number' = s.current_file_number
    /\ last_file_number' = s.last_file_number
    /\ total_shards_finalized' = s.total_shards_finalized
    /\ active_file_name' = s.active_file_name
    /\ active_file_data' = s.active_file_data
    /\ data_bound' = s.data_bound
    /\ file_size' = s.file_size
    /\ dirty' = s.dirty
    /\ max_shard_size' = s.max_shard_size
    /\ files' = s.files
    /\ index_file' = s.index_file

\* how the call that produced this state ended
Called(op, existing, s) ==
    last_call' = [op |-> op, existing |-> existing, exc |-> s.exc,
                  warned |-> s.warned]

SetItemCall(key, value) ==
    LET s == __setitem__(Self, key, value) IN
    /\ Becomes(s)
    /\ Called("__setitem__", key \in DOMAIN weight_map, s)
    /\ latest' = IF s.exc = "none" THEN Put(latest, key, value) ELSE latest
    /\ clean_since_save' = FALSE
    /\ UNCHANGED <<readerVars, otherVars>>

\* writer[key] = value for a key not written before
AddItem ==
    \E key \in Keys \ DOMAIN weight_map, value \in Tensors :
        SetItemCall(key, value)

\* writer[key] = value for a key written before
UpdateItem ==
    \E key \in DOMAIN weight_map, value \in Tensors :
        SetItemCall(key, value)

GetItem ==
    \E key \in Keys :
        LET s == __getitem__(Self, key) IN
        /\ Becomes(s)
        /\ Called("__getitem__", key \in DOMAIN weight_map, s)
        /\ UNCHANGED <<latest, clean_since_save, readerVars, otherVars>>

Save ==
    LET s == save(Self) IN
    /\ Becomes(s)
    /\ Called("save", FALSE, s)
    /\ clean_since_save' = (s.exc = "none")
    /\ UNCHANGED <<latest, readerVars, otherVars>>

----------------------------------------------------------------------------
(* StreamingShardedHFReader over a directory holding a manifest and shard  *)
(* files.  The directory is read-only while the reader lives.              *)

NumShards == 3

\* the shard names a manifest of the model may mention
ManifestFiles == { get_filename(i, NumShards) : i \in 0..(NumShards - 1) }

\* the manifests: some keys, each mapped to a shard name
Manifests == UNION { [K -> ManifestFiles] : K \in SUBSET Keys }

\* what the shard file f of manifest wm holds: its keys and their tensors
ShardOf(wm, f) == [k \in { x \in DOMAIN wm : wm[x] = f } |-> Tensor(k, "int8")]

\* order of the shard names as strings (zero-padded numbers)
FileBefore(a, b) == a.number < b.number \/ (a.number = b.number /\ a.of < b.of)

\* sorted(S) for a set of shard names
RECURSIVE SortedFiles(_)
SortedFiles(S) ==
    IF S = {} THEN <<>>
    ELSE LET first == CHOOSE a \in S : \A b \in S \ {a} : FileBefore(a, b)
         IN  <<first>> \o SortedFiles(S \ {first})

\* the keys of K in the order of the manifest's items
RECURSIVE KeysInOrder(_)
KeysInOrder(K) ==
    IF K = {} THEN <<>>
    ELSE LET first == CHOOSE a \in K : \A b \in K : a <= b
         IN  <<first>> \o KeysInOrder(K \ {first})

ReaderSelf ==
    [weight_map |-> r_weight_map,
     file2keys |-> r_file2keys,
     active_file_name |-> r_active_file_name,
     active_file_data |-> r_active_file_data,
     data_bound |-> r_data_bound,
     files |-> r_files,
     status |-> r_status,
     trace |-> <<>>,
     exc |-> "none",
     ret |-> <<>>]

\* a constructor that does not look for the shard files
ReaderInitWithoutCheck(r, wm) ==
    LET sorted == SortedFiles(Range(wm)) IN
    [r EXCEPT
        !.weight_map = wm,
        !.file2keys = [i \in 1..Len(sorted) |->
                         [file |-> sorted[i],
                          keys |-> KeysInOrder({ k \in DOMAIN wm :
                                                   wm[k] = sorted[i] })]],
        !.active_file_name = <<>>,
        !.active_file_data = <<>>,
        !.data_bound = TRUE,
        !.status = "ready"]

\* __init__(index_file) on the directory holding manifest wm
Reader__init__(r, wm) ==
    LET sorted == SortedFiles(Range(wm))
        missing == { i \in 1..Len(sorted) : sorted[i] \notin DOMAIN r.files }
    IN  IF missing # {}
        THEN [r EXCEPT !.weight_map = wm, !.status = "FileNotFoundError",
                       !.exc = "FileNotFoundError"]
        ELSE [r EXCEPT
                !.weight_map = wm,
                !.file2keys = [i \in 1..Len(sorted) |->
                                 [file |-> sorted[i],
                                  keys |-> KeysInOrder({ k \in DOMAIN wm :
                                                           wm[k] = sorted[i] })]],
                !.active_file_name = <<>>,
                !.active_file_data = <<>>,
                !.data_bound = TRUE,
                !.status = "ready"]

\* a __getitem__ that loads the new shard while the previous one is still held
ReaderGetItemLoadsFirst(r, key) ==
    IF key \notin DOMAIN r.weight_map THEN Raise(r, "KeyError")
    ELSE
    LET file == r.weight_map[key] IN
    IF <<file>> # r.active_file_name
    THEN [r EXCEPT !.active_file_name = <<file>>,
                   !.active_file_data = <<r.files[file]>>,
                   !.trace = <<[ev |-> "load", file |-> file]>>
                             \o (IF r.active_file_data # <<>>
                                 THEN <<[ev |-> "drop"]>> ELSE <<>>),
                   !.ret = <<r.files[file][key]>>]
    ELSE [r EXCEPT !.ret = <<r.active_file_data[1][key]>>]

\* a __getitem__ that reloads the shard on every access
ReaderGetItemAlwaysLoads(r, key) ==
    IF key \notin DOMAIN r.weight_map THEN Raise(r, "KeyError")
    ELSE
    LET file == r.weight_map[key] IN
    [r EXCEPT !.active_file_name = <<file>>,
              !.active_file_data = <<r.files[file]>>,
              !.trace = (IF r.active_file_data # <<>>
                         THEN <<[ev |-> "drop"]>> ELSE <<>>)
                        \o <<[ev |-> "load", file |-> file]>>,
              !.ret = <<r.files[file][key]>>]

Reader__getitem__(r, key) ==
    IF key \notin DOMAIN r.weight_map THEN Raise(r, "KeyError")
    ELSE
    LET file == r.weight_map[key] IN
    IF <<file>> # r.active_file_name
    THEN LET r1 == [r EXCEPT !.active_file_name = <<file>>] IN
         IF ~r1.data_bound THEN Raise(r1, "AttributeError")
         ELSE
         LET r2 == IF r1.active_file_data # <<>>
                   THEN [r1 EXCEPT !.data_bound = FALSE,
                                   !.active_file_data = <<>>,
                                   !.trace = Append(@, [ev |-> "drop"])]
                   ELSE r1
         IN  IF file \notin DOMAIN r2.files
             THEN Raise(r2, "FileNotFoundError")
             ELSE [r2 EXCEPT
                     !.data_bound = TRUE,
                     !.active_file_data = <<r2.files[file]>>,
                     !.trace = Append(@, [ev |-> "load", file |-> file]),
                     !.ret = IF key \in DOMAIN r2.files[file]
                             THEN <<r2.files[file][key]>> ELSE <<>>,
                     !.exc = IF key \in DOMAIN r2.files[file]
                             THEN "none" ELSE "KeyError"]
    ELSE IF ~r.data_bound THEN Raise(r, "AttributeError")
    ELSE IF key \notin DOMAIN r.active_file_data[1] THEN Raise(r, "KeyError")
    ELSE [r EXCEPT !.ret = <<r.active_file_data[1][key]>>]

\* iteration in the order of the manifest's items, as the writer iterates
ReaderIterManifestOrder(r) == KeysInOrder(DOMAIN r.weight_map)

RECURSIVE Flatten(_)
Flatten(ss) == IF ss = <<>> THEN <<>> ELSE Head(ss) \o Flatten(Tail(ss))

\* __iter__ (and keys()): for file in file2keys, for key in file2keys[file]
Reader__iter__(r) ==
    Flatten([i \in 1..Len(r.file2keys) |-> r.file2keys[i].keys])

\* items() / values() run to the end: self[key] for each key of keys();
\* an exception ends the pass
RECURSIVE ReadInTurn(_, _)
ReadInTurn(r, ks) ==
    IF ks = <<>> \/ r.exc # "none" THEN r
    ELSE ReadInTurn(Reader__getitem__(r, Head(ks)), Tail(ks))

Reader_items(r) == ReadInTurn(r, Reader__iter__(r))

ReaderBecomes(r) ==
    /\ r_weight_map' = r.weight_map
    /\ r_file2keys' = r.file2keys
    /\ r_active_file_name' = r.active_file_name
    /\ r_active_file_data' = r.active_file_data
    /\ r_data_bound' = r.data_bound
    /\ r_files' = r.files
    /\ r_status' = r.status
    /\ r_trace' = r.trace

\* no process is constructing a writer
CtorIdle ==
    /\ c_kind = "none"
    /\ c_path = "absent"
    /\ c_proc = <<>>
    /\ c_written = {}

\* StreamingCSWriter.__init__: super().__init__(checkpoint_file, {}), and
\* no H5 file yet
CSWriter__init__ ==
    /\ cs_state = (<<>> :> "dict")
    /\ cs_h5 = EmptyDict
    /\ cs_last_call = [op |-> "__init__", prefix |-> <<>>, key |-> <<>>,
                       exc |-> "none", ret |-> <<>>]
    /\ cs_last_value = (<<>> :> [t |-> "none", v |-> 0])
    /\ cs_sets = 0

\* convert_file_size_to_int has not been called
SizeIdle ==
    /\ sz_size = [isstr |-> FALSE, int |-> 0, str |-> <<>>]
    /\ sz_result = [done |-> FALSE, exc |-> "none", ret |-> 0]

\* no conversion is running
ConvIdle ==
    /\ cv_config = <<>>
    /\ cv_in = <<>>
    /\ cv_mid = <<>>
    /\ cv_out = <<>>
    /\ cv_exc = <<>>

HeadIdle ==
    /\ hd_config = <<>>
    /\ hd_old = <<>>
    /\ hd_new = <<>>
    /\ hd_call = [op |-> "none", exc |-> "none"]

ConvertersIdle == ConvIdle /\ HeadIdle

\* no config conversion is running
ConfigIdle ==
    /\ cf_conv = "none"
    /\ cf_hf = <<>>
    /\ cf_cs = <<>>
    /\ cf_out = <<>>
    /\ cf_call = [op |-> "none", exc |-> "none"]

\* GLOBAL_CALLBACK_REGISTRY = OrderedDict(), and no callback exists
RegistryIdle ==
    /\ rg_registry = EmptyDict
    /\ rg_next_id = 0
    /\ rg_class_handle = EmptyDict
    /\ rg_inst_handle = EmptyDict
    /\ rg_blocks = EmptyDict
    /\ rg_call = [op |-> "none", self |-> <<>>, exc |-> "none"]

\* no data loader exists
LoaderIdle ==
    /\ dl_dataset = <<>>
    /\ dl_streamed = EmptyDict
    /\ dl_previous = EmptyDict
    /\ dl_sampler = EmptyDict
    /\ dl_ckpt = <<>>
    /\ dl_total = 0
    /\ dl_call = [op |-> "none", exc |-> "none", given |-> <<>>]

\* no state dict conversion is running
StateDictIdle ==
    /\ sd_converter = "none"
    /\ sd_run = <<>>
    /\ sd_hf = EmptyDict
    /\ sd_cs = <<>>
    /\ sd_back = <<>>
    /\ sd_call = [op |-> "none", exc |-> "none"]

LaterIdle == ConfigIdle /\ RegistryIdle /\ LoaderIdle /\ StateDictIdle

OthersIdle ==
    CtorIdle /\ CSWriter__init__ /\ SizeIdle /\ ConvertersIdle /\ LaterIdle

\* no reader has been made
ReaderIdle ==
    /\ r_weight_map = EmptyDict
    /\ r_file2keys = <<>>
    /\ r_active_file_name = <<>>
    /\ r_active_file_data = <<>>
    /\ r_data_bound = FALSE
    /\ r_files = EmptyDict
    /\ r_status = "none"
    /\ r_trace = <<>>
    /\ r_manifest = EmptyDict
    /\ r_last_call = [op |-> "none", key |-> 0, exc |-> "none"]
    /\ r_last_key = <<>>
    /\ r_yielded = <<>>

\* a directory with a manifest and some of the shard files it names
ReaderInit ==
    /\ r_manifest \in Manifests
    /\ \E present \in SUBSET ManifestFiles :
          r_files = [f \in present |-> ShardOf(r_manifest, f)]
    /\ r_weight_map = EmptyDict
    /\ r_file2keys = <<>>
    /\ r_active_file_name = <<>>
    /\ r_active_file_data = <<>>
    /\ r_data_bound = FALSE
    /\ r_status = "none"
    /\ r_trace = <<>>
    /\ r_last_call = [op |-> "none", key |-> 0, exc |-> "none"]
    /\ r_last_key = <<>>
    /\ r_yielded = <<>>

\* no writer is in use
WriterIdle ==
    /\ WriterInit(ShardSizeLimit)
    /\ last_call = [op |-> "__init__", existing |-> FALSE, exc |-> "none",
                    warned |-> FALSE]
    /\ latest = EmptyDict
    /\ clean_since_save = FALSE

ReaderConstruct ==
    /\ r_status = "none"
    /\ LET r == Reader__init__(ReaderSelf, r_manifest) IN
       /\ ReaderBecomes(r)
       /\ r_last_call' = [op |-> "__init__", key |-> 0, exc |-> r.exc]
    /\ UNCHANGED <<r_manifest, r_last_key, r_yielded, writerVars, otherVars>>

ReaderGetItem ==
    /\ r_status = "ready"
    /\ \E key \in Keys :
          LET r == Reader__getitem__(ReaderSelf, key) IN
          /\ ReaderBecomes(r)
          /\ r_last_call' = [op |-> "__getitem__", key |-> key, exc |-> r.exc]
          /\ r_last_key' = IF r.exc = "none" THEN <<key>> ELSE r_last_key
    /\ UNCHANGED <<r_manifest, r_yielded, writerVars, otherVars>>

\* for key, value in reader.items(): ... (or values()), run to the end
ReaderItems ==
    /\ r_status = "ready"
    /\ LET r == Reader_items(ReaderSelf)
           ks == Reader__iter__(ReaderSelf)
       IN  /\ ReaderBecomes(r)
           /\ r_last_call' = [op |-> "items", key |-> 0, exc |-> r.exc]
           /\ r_yielded' = ks
           /\ r_last_key' = IF r.exc = "none" /\ ks # <<>>
                            THEN <<ks[Len(ks)]>> ELSE r_last_key
    /\ UNCHANGED <<r_manifest, writerVars, otherVars>>

ReaderNext == ReaderConstruct \/ ReaderGetItem \/ ReaderItems

ReaderStart == ReaderInit /\ WriterIdle /\ OthersIdle

ReaderSpec == ReaderStart /\ [][ReaderNext]_vars

Init ==
    /\ WriterInit(ShardSizeLimit)
    /\ last_call = [op |-> "__init__", existing |-> FALSE, exc |-> "none",
                    warned |-> FALSE]
    /\ clean_since_save = FALSE
    /\ latest = EmptyDict
    /\ ReaderIdle
    /\ OthersIdle

Next == AddItem \/ UpdateItem \/ GetItem \/ Save

Spec == Init /\ [][Next]_vars

\* the writer used without updates of keys already written
NoUpdateNext == AddItem \/ GetItem \/ Save

NoUpdateSpec == Init /\ [][NoUpdateNext]_vars

----------------------------------------------------------------------------
(* Properties of StreamingShardedHFWriter *)

KeysIn(f) == { k \in DOMAIN weight_map : weight_map[k] = f }

\* bytes of a tensor: the least n with n >= numel * bits / 8
ExpectedBytes(value) ==
    LET b == dtype_byte_size(value.dtype)
    IN  CHOOSE n \in 0..(value.numel * b[1]) :
            /\ n * b[2] >= value.numel * b[1]
            /\ (n - 1) * b[2] < value.numel * b[1]

Returned(op) == last_call.op = op /\ last_call.exc = "none"

\* C1: with new keys only (no update of a key already written), every
\* shard's tracked size is at most max_shard_size, unless the shard holds a
\* single tensor that is itself larger than max_shard_size.
C1_ShardSizeInvariant ==
    \A f \in DOMAIN file_size :
        \/ file_size[f] <= max_shard_size
        \/ \E k \in KeysIn(f) :
              /\ KeysIn(f) = {k}
              /\ ExpectedBytes(latest[k]) > max_shard_size

\* an oversized tensor sits alone in one shard while another shard is
\* filled to the limit exactly by two tensors
C1_Witness ==
    /\ last_call.op = "__setitem__"
    /\ \E f \in DOMAIN file_size : file_size[f] > max_shard_size
    /\ \E g \in DOMAIN file_size :
          file_size[g] = max_shard_size /\ Cardinality(KeysIn(g)) = 2

\* C2: after save() returns, every key of the manifest's weight_map names a
\* shard file that exists in checkpoint_dir, and metadata.total_size is the
\* sum of the file_size values.
C2_ManifestConsistent ==
    Returned("save") =>
        /\ Len(index_file) = 1
        /\ DOMAIN index_file[1].weight_map = DOMAIN weight_map
        /\ \A k \in DOMAIN index_file[1].weight_map :
              index_file[1].weight_map[k] \in DOMAIN files
        /\ index_file[1].metadata.total_size
              = SumOver(file_size, DOMAIN file_size)

C2_Witness ==
    /\ Returned("save")
    /\ Cardinality(DOMAIN files) >= 2
    /\ Cardinality(DOMAIN weight_map) = NumKeys
    /\ \E f \in DOMAIN file_size : file_size[f] > max_shard_size

\* C3: whatever calls were made, __getitem__(k) returns the value most
\* recently set for k; nothing written is lost when a dirty active shard is
\* flushed and another one loaded.
C3_ReadsLatest ==
    /\ DOMAIN latest = DOMAIN weight_map
    /\ \A k \in DOMAIN latest :
          LET s == __getitem__(Self, k)
          IN  s.exc = "none" /\ s.ret = <<latest[k]>>

\* a read switched to another shard after an update had grown, beyond the
\* limit, a shard that is now on disk only
C3_Witness ==
    /\ Returned("__getitem__")
    /\ last_call.existing
    /\ \E f \in DOMAIN files :
          /\ f # active_file_name
          /\ Cardinality(KeysIn(f)) = 2
          /\ file_size[f] > max_shard_size
    /\ KeysIn(active_file_name) # {}

\* C4: after save() has returned the writer stays usable: a further
\* __setitem__ (new key or update) succeeds, and a following save() leaves
\* every key mapped to an existing shard file numbered against the new total.
C4_UsableAfterSave ==
    [][ /\ (Returned("save") /\ last_call'.op = "__setitem__")
              => last_call'.exc = "none"
        /\ (last_call'.op = "save" /\ last_call'.exc = "none")
              => \A k \in DOMAIN weight_map' :
                    /\ weight_map'[k] \in DOMAIN files'
                    /\ weight_map'[k].of = last_file_number' + 1 ]_vars

\* C5: a second save() with no __setitem__ in between renames and rewrites
\* no shard file and leaves weight_map, file_size, total_shards_finalized
\* and the manifest as the first save() left them.
C5_SaveIdempotent ==
    clean_since_save =>
        LET s == save(Self)
        IN  /\ ~dirty
            /\ s.exc = "none"
            /\ s.files = files
            /\ s.weight_map = weight_map
            /\ s.file_size = file_size
            /\ s.total_shards_finalized = total_shards_finalized
            /\ s.index_file = index_file

\* after a save() of several shards, a read that switched shards
C5_Witness ==
    /\ clean_since_save
    /\ Returned("__getitem__")
    /\ last_call.existing
    /\ active_file_name \in DOMAIN files
    /\ total_shards_finalized >= 2

\* the names pytorch_model-<i>-of-<N>.bin, i = 1..N
ShardNames(N) ==
    { [prefix |-> "pytorch_model", number |-> i, of |-> N, ext |-> "bin"] :
        i \in 1..N }

\* C6: after save() with N = last_file_number + 1 shards, the files on disk
\* and the names in weight_map and file_size are exactly
\* pytorch_model-<i>-of-<N>.bin for i = 1..N and total_shards_finalized = N.
C6_FinalNames ==
    Returned("save") =>
        LET N == last_file_number + 1
        IN  /\ DOMAIN files = ShardNames(N)
            /\ Range(weight_map) = ShardNames(N)
            /\ DOMAIN file_size = ShardNames(N)
            /\ Range(index_file[1].weight_map) = ShardNames(N)
            /\ total_shards_finalized = N

\* one shard per key saved, one of them grown beyond the limit by an update
C6_Witness ==
    /\ Returned("save")
    /\ last_file_number + 1 = NumKeys
    /\ \E f \in DOMAIN file_size : file_size[f] > max_shard_size

\* C7: adding a new key of size w opens a new shard if and only if
\* file_size[active shard] + w > max_shard_size (a tensor that exactly fills
\* the shard stays in it); the key is recorded in the new shard when it
\* spills and in the active shard otherwise.
C7_SpillIffTipsOver ==
    [][ (last_call'.op = "__setitem__" /\ ~last_call'.existing
            /\ last_call'.exc = "none")
        => \E k \in DOMAIN weight_map' \ DOMAIN weight_map :
              LET w == ExpectedBytes(latest'[k])
                  spills == file_size[active_file_name] + w > max_shard_size
                  fresh == [prefix |-> "pytorch_model",
                            number |-> last_file_number + 2,
                            of |-> total_shards_finalized, ext |-> "bin"]
              IN  /\ (DOMAIN file_size' # DOMAIN file_size) <=> spills
                  /\ spills => /\ DOMAIN file_size' = DOMAIN file_size \cup {fresh}
                               /\ weight_map'[k] = fresh
                               /\ last_file_number' = last_file_number + 1
                  /\ ~spills => /\ weight_map'[k] = active_file_name
                                /\ last_file_number' = last_file_number ]_vars

\* limit 100: a 60-byte tensor, then a 50-byte one that spilled, then a
\* 50-byte one that filled the second shard exactly: two shards
C7_Witness ==
    /\ last_call.op = "__setitem__" /\ ~last_call.existing
    /\ last_file_number = 1
    /\ Cardinality(DOMAIN file_size) = 2
    /\ file_size[get_filename(0, 0)] = 60
    /\ file_size[get_filename(1, 0)] = max_shard_size
    /\ Cardinality(KeysIn(get_filename(1, 0))) = 2

\* C8: updating an existing key never raises because of size, never creates
\* a shard and never moves the key, even when the update makes the shard's
\* tracked size exceed max_shard_size (a warning only); through every call
\* a key keeps the shard number it was first written to.
C8_UpdateInPlace ==
    [][ /\ (last_call'.op = "__setitem__" /\ last_call'.existing)
           => /\ last_call'.exc = "none"
              /\ weight_map' = weight_map
              /\ DOMAIN file_size' = DOMAIN file_size
              /\ last_file_number' = last_file_number
              /\ last_call'.warned
                   <=> file_size'[active_file_name'] > max_shard_size
        /\ \A k \in DOMAIN weight_map :
              /\ k \in DOMAIN weight_map'
              /\ weight_map'[k].number = weight_map[k].number ]_vars

\* an update of a key of an earlier shard has grown that shard beyond the limit
C8_Witness ==
    /\ Returned("__setitem__") /\ last_call.existing /\ last_call.warned
    /\ file_size[active_file_name] > max_shard_size
    /\ Cardinality(KeysIn(active_file_name)) = 2
    /\ active_file_name.number <= last_file_number

\* C9: in every reachable state, for every shard s, file_size[s] is the sum,
\* over the keys mapped to s, of ceil(numel * dtype_byte_size(dtype)) of the
\* key's latest value.
C9_TrackedSize ==
    \A f \in DOMAIN file_size :
        file_size[f] =
            SumOver([k \in KeysIn(f) |-> ExpectedBytes(latest[k])], KeysIn(f))

\* an update has grown a shard holding two keys, the first shard having
\* been left empty by an oversized first tensor
C9_Witness ==
    /\ Returned("__setitem__") /\ last_call.existing
    /\ Cardinality(KeysIn(active_file_name)) = 2
    /\ file_size[active_file_name] > max_shard_size
    /\ \E f \in DOMAIN file_size : KeysIn(f) = {}

----------------------------------------------------------------------------
(* Properties of StreamingShardedHFReader *)

\* C10: after any sequence of __getitem__ calls at most one shard's data is
\* resident, and it is the shard of the last key accessed successfully; a
\* shard is loaded exactly when the requested key's shard differs from the
\* active one, and the previous shard is dropped before the new one is loaded.
C10_OneShardResident ==
    [][ r_last_call'.op = "__getitem__" =>
        /\ Len(r_active_file_data') <= 1
        /\ r_last_key' # <<>> =>
              /\ r_active_file_name' = <<r_weight_map'[r_last_key'[1]]>>
              /\ r_active_file_data'
                    = <<r_files'[r_weight_map'[r_last_key'[1]]]>>
        /\ r_last_call'.exc = "none" =>
              LET file == r_weight_map[r_last_call'.key]
                  loads == { i \in 1..Len(r_trace') : r_trace'[i].ev = "load" }
              IN  /\ (loads # {}) <=> (<<file>> # r_active_file_name)
                  /\ Cardinality(loads) <= 1
                  /\ \A i \in loads :
                        /\ r_trace'[i].file = file
                        /\ i = Len(r_trace')
                        /\ r_active_file_data # <<>>
                              => (i = 2 /\ r_trace'[1].ev = "drop")
        /\ r_last_call'.exc # "none" =>
              /\ r_trace' = <<>>
              /\ r_active_file_name' = r_active_file_name
              /\ r_active_file_data' = r_active_file_data ]_vars

\* a read that dropped one shard and loaded another
C10_Witness ==
    /\ r_last_call.op = "__getitem__" /\ r_last_call.exc = "none"
    /\ Len(r_trace) = 2
    /\ r_trace[1].ev = "drop" /\ r_trace[2].ev = "load"
    /\ Cardinality(DOMAIN r_files) = NumShards

\* the number of loads of shard f among the events tr
LoadsOf(tr, f) ==
    Cardinality({ i \in 1..Len(tr) : tr[i].ev = "load" /\ tr[i].file = f })

C12_MissingShardFailsFast ==
    /\ r_last_call.op = "__init__" =>
          /\ (r_last_call.exc = "FileNotFoundError")
                <=> ~(Range(r_manifest) \subseteq DOMAIN r_files)
          /\ r_last_call.exc \in {"none", "FileNotFoundError"}
          /\ r_active_file_data = <<>> /\ r_trace = <<>>
          /\ (r_status = "ready") <=> (r_last_call.exc = "none")
    /\ r_status = "ready" => Range(r_manifest) \subseteq DOMAIN r_files

\* the manifest names three shards and one of them is missing
C12_Witness ==
    /\ r_last_call.op = "__init__"
    /\ r_last_call.exc = "FileNotFoundError"
    /\ Cardinality(Range(r_manifest)) = NumShards
    /\ Cardinality(Range(r_manifest) \ DOMAIN r_files) = 1

----------------------------------------------------------------------------
(* Two processes that each construct a writer on the same path.  The file  *)
(* system is what they share; a step is one system call of a constructor   *)
(* or one write of a constructed writer.                                   *)

Procs == {1, 2}
WriterKinds == {"StreamingShardedHFWriter", "StreamingCSWriter"}
WrittenNames == 1..NumShards

\* os.path.exists(path)
os_path_exists(path) == path # "absent"

\* StreamingShardedHFWriter.__init__: os.mkdir(checkpoint_dir) creates the
\* directory or raises FileExistsError, in one system call
HFWriter__init__(p) ==
    /\ c_kind = "StreamingShardedHFWriter"
    /\ c_proc[p] = "new"
    /\ IF os_path_exists(c_path)
       THEN /\ c_proc' = [c_proc EXCEPT ![p] = "FileExistsError"]
            /\ c_path' = c_path
       ELSE /\ c_proc' = [c_proc EXCEPT ![p] = "live"]
            /\ c_path' = "dir"
    /\ UNCHANGED <<c_kind, c_written, besidesCtor>>

\* StreamingCSWriter.__init__, the test: os.path.exists(checkpoint_file)
CSWriter__init__Check(p) ==
    /\ c_kind = "StreamingCSWriter"
    /\ c_proc[p] = "new"
    /\ c_proc' = [c_proc EXCEPT ![p] =
                     IF os_path_exists(c_path) THEN "FileExistsError"
                     ELSE "checked"]
    /\ UNCHANGED <<c_kind, c_path, c_written, besidesCtor>>

\* StreamingCSWriter.__init__, the rest: super().__init__(checkpoint_file, {})
\* sets three fields and touches no file
CSWriter__init__View(p) ==
    /\ c_kind = "StreamingCSWriter"
    /\ c_proc[p] = "checked"
    /\ c_proc' = [c_proc EXCEPT ![p] = "live"]
    /\ UNCHANGED <<c_kind, c_path, c_written, besidesCtor>>

\* a constructed StreamingShardedHFWriter writes a shard file into its
\* directory (_flush)
HFWriterFlush(p) ==
    /\ c_kind = "StreamingShardedHFWriter"
    /\ c_proc[p] = "live"
    /\ \E n \in WrittenNames :
          c_written' = c_written \cup {[by |-> p, name |-> n]}
    /\ UNCHANGED <<c_kind, c_path, c_proc, besidesCtor>>

\* a constructed StreamingCSWriter saves a tensor into its file
\* (__setitem__: saver.save_tensor(self.checkpoint_file, name, value)),
\* which creates the file when it is not there
CSWriterSaveTensor(p) ==
    /\ c_kind = "StreamingCSWriter"
    /\ c_proc[p] = "live"
    /\ \E n \in WrittenNames :
          c_written' = c_written \cup {[by |-> p, name |-> n]}
    /\ c_path' = "file"
    /\ UNCHANGED <<c_kind, c_proc, besidesCtor>>

\* the path is free or taken when the two processes start
CtorInit ==
    /\ c_kind \in WriterKinds
    /\ c_path \in {"absent", "dir", "file"}
    /\ c_proc = [p \in Procs |-> "new"]
    /\ c_written = {}

CtorStart ==
    /\ CtorInit /\ WriterIdle /\ ReaderIdle /\ CSWriter__init__ /\ SizeIdle
    /\ ConvertersIdle /\ LaterIdle

CtorNext ==
    \E p \in Procs :
       \/ HFWriter__init__(p)
       \/ CSWriter__init__Check(p)
       \/ CSWriter__init__View(p)
       \/ HFWriterFlush(p)
       \/ CSWriterSaveTensor(p)

CtorSpec == CtorStart /\ [][CtorNext]_vars

\* the processes whose construction returned a writer
LiveWriters == { p \in Procs : c_proc[p] = "live" }

\* C13: of two constructions on one path at most one succeeds, so that no
\* path is written by two live writer instances.
C13_AtMostOneConstruction ==
    c_kind \in WriterKinds =>
       /\ Cardinality(LiveWriters) <= 1
       /\ Cardinality({ w.by : w \in c_written }) <= 1

----------------------------------------------------------------------------
(* StreamingCSWriter and StreamingCSWriterView.  self.state is a nested    *)
(* Python structure; it is modelled by the function from the path of a     *)
(* node (the keys from the top) to the kind of the node: "dict", "list",   *)
(* "tuple" or "leaf" (a StreamingCSLeaf).  A view is a structural node of  *)
(* that one structure, with the path as its prefix.  A key is a str or an  *)
(* int; a dotted name is the sequence of its str components.               *)

MaxDepth == 2
MaxSetItems == 3

StrKey(name) == [ty |-> "str", name |-> name, idx |-> 0]
IntKey(i) == [ty |-> "int", name |-> "", idx |-> i]

\* recurse_spec: a scope component is the str of a dict key or of a position
str(key) ==
    IF key.ty = "int" THEN [ty |-> "str", name |-> "digits", idx |-> key.idx]
    ELSE key

StructTypes == {"dict", "list", "tuple"}

\* a value given to __setitem__: position -> [t: kind of node, v: tensor]
TensorValue(n) == (<<>> :> [t |-> "tensor", v |-> n])

\* a dict, list or tuple value with the children ch (pairs <<key, value>>)
Node(t, ch) ==
    [p \in {<<>>} \cup UNION { { <<c[1]>> \o pos : pos \in DOMAIN c[2] } :
                                c \in ch } |->
        IF p = <<>> THEN [t |-> t, v |-> 0]
        ELSE (CHOOSE c \in ch : c[1] = p[1])[2][Tail(p)]]

CSKeys == {StrKey("a"), IntKey(0), IntKey(1)}

CSValues ==
    { TensorValue(1), TensorValue(2),
      Node("dict", {}), Node("list", {}),
      Node("list", {<<IntKey(0), TensorValue(1)>>,
                    <<IntKey(1), TensorValue(2)>>}),
      Node("tuple", {<<IntKey(0), TensorValue(2)>>}),
      Node("dict", {<<StrKey("b"), TensorValue(2)>>}),
      Node("dict", {<<StrKey("a"),
                      Node("list", {<<IntKey(0), TensorValue(1)>>})>>}) }

Depth(value) == CHOOSE d \in 0..MaxDepth :
                   /\ \A pos \in DOMAIN value : Len(pos) <= d
                   /\ \E pos \in DOMAIN value : Len(pos) = d

\* len(self.state) of the node at prefix
ChildrenOf(st, prefix) ==
    { q \in DOMAIN st : Len(q) = Len(prefix) + 1
                          /\ SubSeq(q, 1, Len(prefix)) = prefix }

\* `key in self.state`: a key of the dict; for a list or tuple, an element
\* equal to the key, and no StreamingCSLeaf, dict, list or tuple equals a
\* str or an int
Contains(st, prefix, key) ==
    st[prefix] = "dict" /\ Append(prefix, key) \in DOMAIN st

\* the exception of reading self.state[key], or "none"
IndexExc(st, prefix, key) ==
    IF st[prefix] = "dict"
    THEN IF Append(prefix, key) \in DOMAIN st THEN "none" ELSE "KeyError"
    ELSE IF key.ty # "int" THEN "TypeError"
    ELSE IF key.idx >= Cardinality(ChildrenOf(st, prefix)) THEN "IndexError"
    ELSE "none"

\* the exception of the assignment self.state[key] = ..., or "none"
AssignExc(st, prefix, key) ==
    IF st[prefix] = "dict" THEN "none"
    ELSE IF st[prefix] = "tuple" THEN "TypeError"
    ELSE IF key.ty # "int" THEN "TypeError"
    ELSE IF key.idx >= Cardinality(ChildrenOf(st, prefix)) THEN "IndexError"
    ELSE "none"

\* ".".join(parts) raises TypeError unless every part is a str
Joinable(parts) == \A i \in 1..Len(parts) : parts[i].ty = "str"

\* tree_unflatten([StreamingCSLeaf() ...], spec): the value with a leaf
\* marker at every tensor
Skeleton(value) ==
    [pos \in DOMAIN value |->
        IF value[pos].t \in StructTypes THEN value[pos].t ELSE "leaf"]

\* self.state[key] = substate
Bind(st, q, substate) ==
    LET kept == { p \in DOMAIN st :
                    ~(Len(p) >= Len(q) /\ SubSeq(p, 1, Len(q)) = q) }
        new == { q \o pos : pos \in DOMAIN substate }
    IN [p \in kept \cup new |->
           IF p \in new THEN substate[SubSeq(p, Len(q) + 1, Len(p))]
           ELSE st[p]]

CSSelf == [state |-> cs_state, h5 |-> cs_h5, exc |-> "none", ret |-> <<>>]

\* the dotted name a tensor of a structured value is saved under:
\* ".".join(self.prefix + [key] + scope)
WriteParts(prefix, key, pos) ==
    prefix \o <<key>> \o [i \in 1..Len(pos) |-> str(pos[i])]

\* StreamingCSWriterView.__setitem__ of the view with this prefix
View__setitem__(s, prefix, key, value) ==
    LET st == s.state
        q == Append(prefix, key)
        tensors == { pos \in DOMAIN value : value[pos].t = "tensor" }
        names == { WriteParts(prefix, key, pos) : pos \in tensors }
        saved == [n \in DOMAIN s.h5 \cup names |->
                     IF n \in names
                     THEN value[CHOOSE pos \in tensors :
                                   WriteParts(prefix, key, pos) = n].v
                     ELSE s.h5[n]]
        assign == AssignExc(st, prefix, key)
    IN
    IF Contains(st, prefix, key) /\ st[q] # "leaf"
    THEN [s EXCEPT !.exc = "ValueError"]
    ELSE IF value[<<>>].t \in StructTypes
    THEN IF Contains(st, prefix, key)
         THEN [s EXCEPT !.exc = "ValueError"]
         ELSE IF tensors # {} /\ ~Joinable(q)
         THEN [s EXCEPT !.exc = "TypeError"]
         ELSE IF assign # "none"
         THEN [s EXCEPT !.h5 = saved, !.exc = assign]
         ELSE [s EXCEPT !.h5 = saved,
                        !.state = Bind(st, q, Skeleton(value))]
    ELSE IF ~Joinable(q)
         THEN [s EXCEPT !.exc = "TypeError"]
         ELSE IF assign # "none"
         THEN [s EXCEPT !.h5 = Put(s.h5, q, value[<<>>].v), !.exc = assign]
         ELSE [s EXCEPT !.h5 = Put(s.h5, q, value[<<>>].v),
                        !.state = Bind(st, q, (<<>> :> "leaf"))]

\* StreamingCSWriterView.__getitem__ of the view with this prefix: a tensor
\* loaded from the H5 file, or a view of the structure at the key
View__getitem__(s, prefix, key) ==
    LET st == s.state
        q == Append(prefix, key)
        idx == IndexExc(st, prefix, key)
    IN
    IF idx # "none" THEN [s EXCEPT !.exc = idx]
    ELSE IF st[q] = "leaf"
    THEN IF ~Joinable(q) THEN [s EXCEPT !.exc = "TypeError"]
         ELSE IF q \notin DOMAIN s.h5 THEN [s EXCEPT !.exc = "KeyError"]
         ELSE [s EXCEPT !.ret = <<[tensor |-> s.h5[q], view |-> <<>>]>>]
    ELSE [s EXCEPT !.ret = <<[tensor |-> 0, view |-> <<q>>]>>]

\* the views that a chain of __getitem__ from the writer gives
Views(st) == { p \in DOMAIN st : st[p] \in StructTypes }

\* writer[k1]...[kn][key] = value
CSSetItem ==
    \E prefix \in Views(cs_state), key \in CSKeys, value \in CSValues :
       /\ Len(prefix) + 1 + Depth(value) <= MaxDepth
       /\ cs_sets < MaxSetItems
       /\ cs_sets' = cs_sets + 1
       /\ LET s == View__setitem__(CSSelf, prefix, key, value) IN
          /\ cs_state' = s.state
          /\ cs_h5' = s.h5
          /\ cs_last_call' = [op |-> "__setitem__", prefix |-> prefix,
                              key |-> <<key>>, exc |-> s.exc, ret |-> <<>>]
          /\ cs_last_value' = value
       /\ UNCHANGED besidesCS

\* writer[k1]...[kn][key]
CSGetItem ==
    \E prefix \in Views(cs_state), key \in CSKeys :
       /\ LET s == View__getitem__(CSSelf, prefix, key) IN
          /\ cs_last_call' = [op |-> "__getitem__", prefix |-> prefix,
                              key |-> <<key>>, exc |-> s.exc, ret |-> s.ret]
       /\ UNCHANGED <<cs_state, cs_h5, cs_last_value, cs_sets, besidesCS>>

CSStart ==
    /\ CSWriter__init__ /\ WriterIdle /\ ReaderIdle /\ CtorIdle /\ SizeIdle
    /\ ConvertersIdle /\ LaterIdle

CSNext == CSSetItem \/ CSGetItem

CSSpec == CSStart /\ [][CSNext]_vars

\* C14: a key bound to a dict, list or tuple is never rebound, and a key
\* bound to a leaf is never rebound to a dict, list or tuple: a __setitem__
\* that returns on a key already bound rebinds a leaf to a leaf, and every
\* node of the structure keeps its kind through every call.
C14_ShapeFixedOnceSet ==
    [][ /\ \A p \in DOMAIN cs_state :
              p \in DOMAIN cs_state' /\ cs_state'[p] = cs_state[p]
        /\ (cs_last_call'.op = "__setitem__" /\ cs_last_call'.exc = "none"
              /\ (cs_last_call'.prefix \o cs_last_call'.key)
                    \in DOMAIN cs_state)
           => /\ cs_state[cs_last_call'.prefix \o cs_last_call'.key] = "leaf"
              /\ cs_last_value'[<<>>].t = "tensor" ]_vars

\* the tensor that navigating from the writer along the path loads
ReadAt(st, h5, path) ==
    View__getitem__([state |-> st, h5 |-> h5, exc |-> "none", ret |-> <<>>],
                    SubSeq(path, 1, Len(path) - 1), path[Len(path)])

\* C15: after view[key] = value with a structured value, the skeleton under
\* the key has the shape of the value with a leaf at every tensor, and
\* navigating to a tensor position loads the tensor stored for it.
C15_ReadNameIsWriteName ==
    [][ (cs_last_call'.op = "__setitem__" /\ cs_last_call'.exc = "none"
           /\ cs_last_value'[<<>>].t \in StructTypes)
        => LET q == cs_last_call'.prefix \o cs_last_call'.key IN
           \A pos \in DOMAIN cs_last_value' :
              /\ (q \o pos) \in DOMAIN cs_state'
              /\ cs_state'[q \o pos] = Skeleton(cs_last_value')[pos]
              /\ cs_last_value'[pos].t = "tensor"
                 => LET r == ReadAt(cs_state', cs_h5', q \o pos) IN
                    /\ r.exc = "none"
                    /\ r.ret = <<[tensor |-> cs_last_value'[pos].v,
                                  view |-> <<>>]>> ]_vars

----------------------------------------------------------------------------
(* convert_file_size_to_int on a str argument.  A str is the sequence of   *)
(* its characters.                                                         *)

MaxSizeLen == 4
MaxSizeInt == 3

DigitChars == {"0", "1"}
SizeChars == DigitChars \cup {"K", "B", "x", "\n"}

SizeStrings == UNION { [1..n -> SizeChars] : n \in 0..MaxSizeLen }

\* the arguments: an int, or a str
SizeArgs ==
    { [isstr |-> FALSE, int |-> n, str |-> <<>>] : n \in 0..MaxSizeInt }
    \cup { [isstr |-> TRUE, int |-> 0, str |-> s] : s \in SizeStrings }

\* int(digits) for a run of decimal digits
RECURSIVE int(_)
int(digits) ==
    IF digits = <<>> THEN 0
    ELSE 10 * int(SubSeq(digits, 1, Len(digits) - 1))
         + (IF digits[Len(digits)] = "1" THEN 1 ELSE 0)

\* convert_byte_unit(num, "B", src_unit=unit): the units it knows that can
\* be written with SizeChars, with their number of bytes
ByteUnits == (<<"B">> :> 1) @@ (<<"K", "B">> :> 1000)

convert_byte_unit(num, unit) ==
    IF unit \in DOMAIN ByteUnits
    THEN [exc |-> "none", ret |-> num * ByteUnits[unit]]
    ELSE [exc |-> "ValueError", ret |-> 0]

\* re.search(r'(\d+)(.*)', size): the leftmost digit starts group 1, which
\* takes the whole run of digits; group 2 is the rest up to a newline
re_search(size) ==
    LET starts == { i \in 1..Len(size) : size[i] \in DigitChars } IN
    IF starts = {} THEN <<>>
    ELSE LET i == CHOOSE a \in starts : \A b \in starts : a <= b
             j == CHOOSE a \in i..Len(size) :
                     /\ \A b \in i..a : size[b] \in DigitChars
                     /\ a = Len(size) \/ size[a + 1] \notin DigitChars
             ends == { a \in (j + 1)..Len(size) : size[a] = "\n" }
             k == IF ends = {} THEN Len(size)
                  ELSE (CHOOSE a \in ends : \A b \in ends : a <= b) - 1
         IN <<[group1 |-> SubSeq(size, i, j),
               group2 |-> SubSeq(size, j + 1, k)]>>

\* convert_file_size_to_int, the branch isinstance(size, str)
convert_file_size_to_int_str(size) ==
    LET match == re_search(size) IN
    IF match = <<>> THEN [exc |-> "ValueError", ret |-> 0]
    ELSE convert_byte_unit(int(match[1].group1), match[1].group2)

ConvertFileSize ==
    /\ ~sz_result.done
    /\ sz_result' =
          IF sz_size.isstr
          THEN LET r == convert_file_size_to_int_str(sz_size.str) IN
               [done |-> TRUE, exc |-> r.exc, ret |-> r.ret]
          ELSE [done |-> TRUE, exc |-> "none",
                ret |-> convert_file_size_to_int(sz_size.int)]
    /\ UNCHANGED <<sz_size, besidesSize>>

SizeInit ==
    /\ sz_size \in SizeArgs
    /\ sz_result = [done |-> FALSE, exc |-> "none", ret |-> 0]

SizeStart ==
    /\ SizeInit /\ WriterIdle /\ ReaderIdle /\ CtorIdle /\ CSWriter__init__
    /\ ConvertersIdle /\ LaterIdle

SizeNext == ConvertFileSize

SizeSpec == SizeStart /\ [][SizeNext]_vars

\* a str made of digits immediately followed by a byte unit
DigitsThenUnit(s) ==
    \E j \in 1..Len(s) :
       /\ \A i \in 1..j : s[i] \in DigitChars
       /\ SubSeq(s, j + 1, Len(s)) \in DOMAIN ByteUnits

BytesOf(s) ==
    LET j == CHOOSE a \in 1..Len(s) :
                /\ \A i \in 1..a : s[i] \in DigitChars
                /\ SubSeq(s, a + 1, Len(s)) \in DOMAIN ByteUnits
    IN int(SubSeq(s, 1, j)) * ByteUnits[SubSeq(s, j + 1, Len(s))]

\* C16: an int is returned unchanged; a str of digits immediately followed
\* by a byte unit is converted to bytes; every other str raises ValueError.
C16_SizeParsing ==
    sz_result.done =>
       IF ~sz_size.isstr
       THEN sz_result.exc = "none" /\ sz_result.ret = sz_size.int
       ELSE IF DigitsThenUnit(sz_size.str)
       THEN sz_result.exc = "none" /\ sz_result.ret = BytesOf(sz_size.str)
       ELSE sz_result.exc = "ValueError"

----------------------------------------------------------------------------
(* Tensors of the checkpoint converters (llama.py, falcon_40b.py).  A      *)
(* tensor is its shape and its elements in row-major order; the elements   *)
(* of an input tensor are 1, 2, ... so that every position is told apart.  *)
(* An operation that raises gives a tensor with the exception's name, and  *)
(* an operation on such a tensor gives it back: the exception propagates.  *)

NDTensor(shape, data) == [shape |-> shape, data |-> data, exc |-> "none"]

Raised(e) == [shape |-> <<>>, data |-> <<>>, exc |-> e]

RECURSIVE Prod(_)
Prod(shape) == IF shape = <<>> THEN 1 ELSE Head(shape) * Prod(Tail(shape))

\* the tensor of this shape with the elements 1, 2, ...
Arange(shape) == NDTensor(shape, [i \in 1..Prod(shape) |-> i])

Stride(shape, k) == Prod(SubSeq(shape, k + 1, Len(shape)))

\* the index (from 0, per dimension) of the element at offset i
Coord(i, shape) ==
    [k \in 1..Len(shape) |-> (i \div Stride(shape, k)) % shape[k]]

RECURSIVE OffsetUpTo(_, _, _)
OffsetUpTo(c, shape, k) ==
    IF k = 0 THEN 0
    ELSE c[k] * Stride(shape, k) + OffsetUpTo(c, shape, k - 1)

\* the offset of the element at index c
Offset(c, shape) == OffsetUpTo(c, shape, Len(shape))

\* t.reshape(*shape) and t.view(*shape) of a contiguous tensor; one
\* dimension may be -1
reshape(t, shape) ==
    LET n == Len(t.data)
        inferred == { k \in 1..Len(shape) : shape[k] = -1 }
        known == Prod([k \in 1..Len(shape) |->
                          IF shape[k] = -1 THEN 1 ELSE shape[k]])
    IN
    IF t.exc # "none" THEN t
    ELSE IF inferred = {}
    THEN IF known = n THEN [t EXCEPT !.shape = shape]
         ELSE Raised("RuntimeError")
    ELSE IF known = 0 \/ n % known # 0 THEN Raised("RuntimeError")
    ELSE [t EXCEPT !.shape = [k \in 1..Len(shape) |->
                                 IF shape[k] = -1 THEN n \div known
                                 ELSE shape[k]]]

\* t.permute(*dims), dims counted from 0
permute(t, dims) ==
    IF t.exc # "none" THEN t
    ELSE LET shape == [k \in 1..Len(dims) |-> t.shape[dims[k] + 1]] IN
         NDTensor(shape,
            [j \in 1..Len(t.data) |->
                LET c == Coord(j - 1, shape)
                    old == [d \in 1..Len(dims) |->
                               c[CHOOSE k \in 1..Len(dims) : dims[k] + 1 = d]]
                IN t.data[Offset(old, t.shape) + 1]])

Min(a, b) == IF a <= b THEN a ELSE b

\* t[..., lo:hi, ...] in dimension dim (counted from 0); the bounds are
\* clipped to the size as Python slices are
slice(t, dim, lo, hi) ==
    IF t.exc # "none" THEN t
    ELSE LET size == t.shape[dim + 1]
             a == Min(lo, size)
             b == IF Min(hi, size) < a THEN a ELSE Min(hi, size)
             shape == [t.shape EXCEPT ![dim + 1] = b - a]
         IN NDTensor(shape,
               [j \in 1..Prod(shape) |->
                   LET c == Coord(j - 1, shape) IN
                   t.data[Offset([c EXCEPT ![dim + 1] = @ + a], t.shape) + 1]])

\* t[..., lo:, ...]
slice_from(t, dim, lo) ==
    IF t.exc # "none" THEN t ELSE slice(t, dim, lo, t.shape[dim + 1])

\* torch.cat((a, b), dim=dim)
cat(a, b, dim) ==
    IF a.exc # "none" THEN a
    ELSE IF b.exc # "none" THEN b
    ELSE IF Len(a.shape) # Len(b.shape)
            \/ \E k \in 1..Len(a.shape) :
                  k # dim + 1 /\ a.shape[k] # b.shape[k]
    THEN Raised("RuntimeError")
    ELSE LET shape == [a.shape EXCEPT ![dim + 1] = @ + b.shape[dim + 1]] IN
         NDTensor(shape,
            [j \in 1..Prod(shape) |->
                LET c == Coord(j - 1, shape) IN
                IF c[dim + 1] < a.shape[dim + 1]
                THEN a.data[Offset(c, a.shape) + 1]
                ELSE b.data[Offset([c EXCEPT ![dim + 1] =
                                       @ - a.shape[dim + 1]], b.shape) + 1]])

\* the three tensors packed with the last two in the other order
Cat3Swapped(a, b, c, dim) == cat(cat(a, c, dim), b, dim)

\* torch.cat((a, b, c), dim=dim)
cat3(a, b, c, dim) == cat(cat(a, b, dim), c, dim)

(* llama.py: Converter_LlamaAttention_HF_CS *)

\* interleave_helper(t, cs_config)
Llama_interleave_helper(t, rotary_dim) ==
    IF t.exc # "none" THEN t
    ELSE IF Len(t.shape) = 3
    THEN LET to_rotate == slice(t, 1, 0, rotary_dim)
             to_pass == slice_from(t, 1, rotary_dim)
             rotated ==
                reshape(permute(reshape(to_rotate,
                                        <<t.shape[1], 2, -1, t.shape[3]>>),
                                <<0, 2, 1, 3>>),
                        <<t.shape[1], -1, t.shape[3]>>)
         IN cat(rotated, to_pass, 1)
    ELSE IF Len(t.shape) = 2
    THEN LET to_rotate == slice(t, 1, 0, rotary_dim)
             to_pass == slice_from(t, 1, rotary_dim)
             rotated ==
                reshape(permute(reshape(to_rotate, <<t.shape[1], 2, -1>>),
                                <<0, 2, 1>>),
                        <<t.shape[1], -1>>)
         IN cat(rotated, to_pass, 1)
    ELSE Raised("AssertionError")

\* the interleave applied once more in place of its reverse
LlamaReverseByInterleaving(t0, rotary_dim, num_heads) ==
    Llama_interleave_helper(
        reshape(t0, IF Len(t0.shape) = 2
                    THEN <<num_heads, -1, t0.shape[2]>>
                    ELSE <<num_heads, -1>>),
        rotary_dim)

\* reverse_interleave_helper(t, cs_config, num_heads)
Llama_reverse_interleave_helper(t0, rotary_dim, num_heads) ==
    IF t0.exc # "none" THEN t0
    ELSE IF Len(t0.shape) = 2
    THEN LET t == reshape(t0, <<num_heads, -1, t0.shape[2]>>)
             to_rotate == slice(t, 1, 0, rotary_dim)
             to_pass == slice_from(t, 1, rotary_dim)
             reversed ==
                reshape(permute(reshape(to_rotate,
                                        <<num_heads, -1, 2, t.shape[3]>>),
                                <<0, 2, 1, 3>>),
                        <<num_heads, rotary_dim, t.shape[3]>>)
         IN cat(reversed, to_pass, 1)
    ELSE IF Len(t0.shape) = 1
    THEN LET t == reshape(t0, <<num_heads, -1>>)
             to_rotate == slice(t, 1, 0, rotary_dim)
             to_pass == slice_from(t, 1, rotary_dim)
             reversed ==
                reshape(permute(reshape(to_rotate, <<num_heads, -1, 2>>),
                                <<0, 2, 1>>),
                        <<num_heads, -1>>)
         IN cat(reversed, to_pass, 1)
    ELSE Raised("AssertionError")

\* convert_with_interleaving_query: the tensor written to
\* new_state_dict[new_key], from old_state_dict[old_key]
convert_with_interleaving_query(tensor, num_heads, rotary_dim, from_index) ==
    LET initial_shape == tensor.shape
        viewed ==
           IF Len(tensor.shape) = 2
           THEN reshape(tensor, <<num_heads, tensor.shape[1] \div num_heads,
                                  tensor.shape[2]>>)
           ELSE IF Len(tensor.shape) = 1
           THEN reshape(tensor, <<num_heads, tensor.shape[1] \div num_heads>>)
           ELSE tensor
    IN
    IF from_index = 0
    THEN reshape(Llama_interleave_helper(viewed, rotary_dim), initial_shape)
    ELSE reshape(Llama_reverse_interleave_helper(tensor, rotary_dim,
                                                 num_heads),
                 initial_shape)

\* convert_with_interleaving_key: as the query with aiayn_attention, over
\* the num_kv_groups heads of the key with multiquery_attention
convert_with_interleaving_key(tensor, model, from_index) ==
    IF model.attention_module = "aiayn_attention"
    THEN convert_with_interleaving_query(tensor, model.num_heads,
                                         model.rotary_dim, from_index)
    ELSE IF model.attention_module = "multiquery_attention"
    THEN convert_with_interleaving_query(tensor, model.num_kv_groups,
                                         model.rotary_dim, from_index)
    ELSE Raised("AssertionError")

(* falcon_40b.py: Converter_Falcon_40B_Attention_HF_CS20 *)

\* interleave_helper(rotary_dim, t)
Falcon_interleave_helper(rotary_dim, t) ==
    IF t.exc # "none" THEN t
    ELSE IF Len(t.shape) = 4
    THEN LET to_rotate == slice(t, 2, 0, rotary_dim)
             to_pass == slice_from(t, 2, rotary_dim)
             rotated ==
                reshape(permute(reshape(to_rotate,
                                        <<t.shape[1], t.shape[2], 2, -1,
                                          t.shape[4]>>),
                                <<0, 1, 3, 2, 4>>),
                        <<t.shape[1], t.shape[2], -1, t.shape[4]>>)
         IN cat(rotated, to_pass, 2)
    ELSE IF Len(t.shape) = 3
    THEN LET to_rotate == slice(t, 2, 0, rotary_dim)
             to_pass == slice_from(t, 2, rotary_dim)
             rotated ==
                reshape(permute(reshape(to_rotate,
                                        <<t.shape[1], t.shape[2], 2, -1>>),
                                <<0, 1, 3, 2>>),
                        <<t.shape[1], t.shape[2], -1>>)
         IN cat(rotated, to_pass, 2)
    ELSE Raised("AssertionError")

\* reverse_interleave_helper(rotary_dim, t, group_size, num_groups)
Falcon_reverse_interleave_helper(rotary_dim, t0, group_size, num_groups) ==
    IF t0.exc # "none" THEN t0
    ELSE IF Len(t0.shape) = 2
    THEN LET t == reshape(t0, <<num_groups, group_size, -1, t0.shape[2]>>)
             to_rotate == slice(t, 2, 0, rotary_dim)
             to_pass == slice_from(t, 2, rotary_dim)
             reversed ==
                reshape(permute(reshape(to_rotate,
                                        <<num_groups, group_size, -1, 2,
                                          t.shape[4]>>),
                                <<0, 1, 3, 2, 4>>),
                        <<num_groups, group_size, rotary_dim, t.shape[4]>>)
         IN cat(reversed, to_pass, 2)
    ELSE IF Len(t0.shape) = 1
    THEN LET t == reshape(t0, <<num_groups, group_size, -1>>)
             to_rotate == slice(t, 2, 0, rotary_dim)
             to_pass == slice_from(t, 2, rotary_dim)
             reversed ==
                reshape(permute(reshape(to_rotate,
                                        <<num_groups, group_size, -1, 2>>),
                                <<0, 1, 3, 2>>),
                        <<num_groups, group_size, -1>>)
         IN cat(reversed, to_pass, 2)
    ELSE Raised("AssertionError")

\* a state dict with the keys of one attention layer; <<>> for a key that
\* is not in it, else <<tensor>>
NoTensors == [q |-> <<>>, k |-> <<>>, v |-> <<>>, packed |-> <<>>]

\* qkv_converter_hf_to_cs: new_state_dict after the call, and the exception
qkv_converter_hf_to_cs(old_state_dict, new_state_dict, model, suffix) ==
    LET old == old_state_dict.packed[1]
        hidden_size == model.hidden_size
        num_heads == model.num_heads
        head_size == hidden_size \div num_heads
        num_kv_groups == model.num_kv_groups
        kv_group_size == num_heads \div num_kv_groups
        ok == head_size * (num_kv_groups * 2 + num_heads) = old.shape[1]
        tail == IF suffix = "bias" THEN <<>> ELSE <<old.shape[2]>>
        split_by_num_heads ==
           reshape(old, <<num_kv_groups, kv_group_size + 2, -1>> \o tail)
        query == reshape(Falcon_interleave_helper(head_size,
                            slice(split_by_num_heads, 1, 0, kv_group_size)),
                         <<-1>> \o tail)
        key == reshape(Falcon_interleave_helper(head_size,
                          slice(split_by_num_heads, 1, kv_group_size,
                                kv_group_size + 1)),
                       <<-1>> \o tail)
        value == reshape(slice(split_by_num_heads, 1, kv_group_size + 1,
                               kv_group_size + 2),
                         <<-1>> \o tail)
    IN
    IF suffix \notin {"bias", "weight"}
    THEN [new |-> new_state_dict, exc |-> "ValueError"]
    ELSE IF Len(old.shape) # (IF suffix = "bias" THEN 1 ELSE 2)
    THEN [new |-> new_state_dict,
          exc |-> IF suffix = "bias" THEN "AssertionError" ELSE "ValueError"]
    ELSE IF ~ok THEN [new |-> new_state_dict, exc |-> "AssertionError"]
    ELSE IF query.exc # "none" THEN [new |-> new_state_dict, exc |-> query.exc]
    ELSE IF key.exc # "none" THEN [new |-> new_state_dict, exc |-> key.exc]
    ELSE IF value.exc # "none" THEN [new |-> new_state_dict, exc |-> value.exc]
    ELSE [new |-> [new_state_dict EXCEPT !.q = <<query>>, !.k = <<key>>,
                                         !.v = <<value>>],
          exc |-> "none"]

\* qkv_converter_cs_to_hf: new_state_dict after the call, and the exception
qkv_converter_cs_to_hf(old_state_dict, new_state_dict, model, suffix) ==
    LET hidden_size == model.hidden_size
        num_heads == model.num_heads
        head_size == hidden_size \div num_heads
        num_kv_groups == model.num_kv_groups
        kv_group_size == num_heads \div num_kv_groups
        q == old_state_dict.q[1]
        k == old_state_dict.k[1]
        v == old_state_dict.v[1]
        tail == IF suffix = "bias" THEN <<>> ELSE <<v.shape[Len(v.shape)]>>
        query == Falcon_reverse_interleave_helper(head_size, q,
                                                  kv_group_size, num_kv_groups)
        key == Falcon_reverse_interleave_helper(head_size, k, 1,
                                                num_kv_groups)
        value == reshape(v, <<num_kv_groups, 1, -1>> \o tail)
        packed_qkv ==
           reshape(cat3(query, key, value, 1),
                   IF suffix = "bias" THEN <<-1>>
                   ELSE <<-1, q.shape[Len(q.shape)]>>)
    IN
    IF old_state_dict.k = <<>> \/ old_state_dict.v = <<>>
    THEN [new |-> new_state_dict, exc |-> "AssertionError"]
    ELSE IF suffix \notin {"bias", "weight"}
    THEN [new |-> new_state_dict, exc |-> "ValueError"]
    ELSE IF query.exc # "none" THEN [new |-> new_state_dict, exc |-> query.exc]
    ELSE IF key.exc # "none" THEN [new |-> new_state_dict, exc |-> key.exc]
    ELSE IF value.exc # "none" THEN [new |-> new_state_dict, exc |-> value.exc]
    ELSE IF packed_qkv.exc # "none"
    THEN [new |-> new_state_dict, exc |-> packed_qkv.exc]
    ELSE [new |-> [new_state_dict EXCEPT !.packed = <<packed_qkv>>],
          exc |-> "none"]

\* qkv_converter: the direction chosen by from_index
qkv_converter(old_state_dict, new_state_dict, from_index, model, suffix) ==
    IF from_index = 0
    THEN qkv_converter_hf_to_cs(old_state_dict, new_state_dict, model, suffix)
    ELSE qkv_converter_cs_to_hf(old_state_dict, new_state_dict, model, suffix)

----------------------------------------------------------------------------
(* A conversion HF -> CS of the tensors of one attention layer and the     *)
(* conversion back (or CS -> HF and back), under one CS config.            *)

MaxHeads == 4
MaxHeadSize == 6
InDim == 2

HeadSizes == 2..MaxHeadSize

\* the tensor of this shape with the elements start + 1, start + 2, ...
ArangeFrom(shape, start) ==
    NDTensor(shape, [i \in 1..Prod(shape) |-> start + i])

\* the dimensions after the first: none for a bias, the input dimension
\* for a weight
TailOf(suffix) == IF suffix = "bias" THEN <<>> ELSE <<InDim>>

Model(num_heads, num_kv_groups, head_size, rotary_dim, attention_module) ==
    [hidden_size |-> num_heads * head_size, num_heads |-> num_heads,
     num_kv_groups |-> num_kv_groups, rotary_dim |-> rotary_dim,
     attention_module |-> attention_module]

Cfg == cv_config[1]

HeadSize == Cfg.model.hidden_size \div Cfg.model.num_heads

\* the conversions of the run made so far returned
ConvRunning == Len(cv_exc) < 2 /\ \A i \in 1..Len(cv_exc) : cv_exc[i] = "none"

\* old_state_dict of the next conversion
OldStateDict == IF cv_exc = <<>> THEN cv_in ELSE cv_mid

\* the conversion ends: its new_state_dict and its exception
ConvDone(new, exc) ==
    /\ IF cv_exc = <<>>
       THEN cv_mid' = new /\ cv_out' = cv_out
       ELSE cv_out' = new /\ cv_mid' = cv_mid
    /\ cv_exc' = Append(cv_exc, exc)
    /\ UNCHANGED <<cv_config, cv_in, besidesConv>>

\* new_state_dict[new_key] = tensor, unless the computation raised
WriteQ(tensor) ==
    ConvDone(IF tensor.exc = "none" THEN [NoTensors EXCEPT !.q = <<tensor>>]
             ELSE NoTensors,
             tensor.exc)

\* Llama q_proj <-> proj_q_dense_layer: from_index 0, then 1
ConvertQuery ==
    /\ cv_config # <<>> /\ Cfg.run = "query" /\ ConvRunning
    /\ WriteQ(convert_with_interleaving_query(OldStateDict.q[1],
                 Cfg.model.num_heads, Cfg.model.rotary_dim, Len(cv_exc)))

\* Llama k_proj <-> proj_k_dense_layer: from_index 0, then 1
ConvertKey ==
    /\ cv_config # <<>> /\ Cfg.run = "key" /\ ConvRunning
    /\ WriteQ(convert_with_interleaving_key(OldStateDict.q[1], Cfg.model,
                                            Len(cv_exc)))

\* Falcon interleave_helper on the heads of num_kv_groups groups, flattened
\* as qkv_converter_hf_to_cs does
FalconInterleave ==
    /\ cv_config # <<>> /\ Cfg.run = "falcon" /\ cv_exc = <<>>
    /\ LET num_kv_groups == Cfg.model.num_kv_groups
           kv_group_size == Cfg.model.num_heads \div num_kv_groups
           tail == TailOf(Cfg.suffix)
           t == reshape(cv_in.q[1],
                        <<num_kv_groups, kv_group_size, -1>> \o tail)
       IN WriteQ(reshape(Falcon_interleave_helper(Cfg.model.rotary_dim, t),
                         <<-1>> \o tail))

\* Falcon reverse_interleave_helper with group_size and num_groups
FalconReverse ==
    /\ cv_config # <<>> /\ Cfg.run = "falcon" /\ cv_exc = <<"none">>
    /\ LET num_kv_groups == Cfg.model.num_kv_groups
           kv_group_size == Cfg.model.num_heads \div num_kv_groups
       IN WriteQ(reshape(Falcon_reverse_interleave_helper(
                            Cfg.model.rotary_dim, cv_mid.q[1],
                            kv_group_size, num_kv_groups),
                         <<-1>> \o TailOf(Cfg.suffix)))

\* the runs of the rotary interleave: the config and the tensor, whose
\* leading dimension is (number of heads) * head_size
RotaryRuns ==
    { [run |-> "query", suffix |-> sfx, heads |-> H,
       model |-> Model(H, H, hs, r, "aiayn_attention")] :
         sfx \in {"weight", "bias"}, H \in 1..MaxHeads, hs \in HeadSizes,
         r \in 0..(MaxHeadSize + 1) }
    \cup
    { [run |-> "key", suffix |-> sfx, heads |-> H,
       model |-> Model(H, H, hs, r, "aiayn_attention")] :
         sfx \in {"weight", "bias"}, H \in 1..MaxHeads, hs \in HeadSizes,
         r \in 0..(MaxHeadSize + 1) }
    \cup
    { [run |-> "key", suffix |-> sfx, heads |-> G,
       model |-> Model(H, G, hs, r, "multiquery_attention")] :
         sfx \in {"weight", "bias"}, H \in 1..MaxHeads, G \in 1..MaxHeads,
         hs \in HeadSizes, r \in 0..(MaxHeadSize + 1) }
    \cup
    UNION {
      { [run |-> "falcon", suffix |-> sfx, heads |-> G * gs,
         model |-> Model(G * gs, G, hs, r, "multiquery_attention")] :
           sfx \in {"weight", "bias"}, gs \in 1..(MaxHeads \div G),
           hs \in HeadSizes, r \in 0..(MaxHeadSize + 1) } :
      G \in 1..MaxHeads }

RotaryInit ==
    /\ cv_config \in { <<c>> : c \in RotaryRuns }
    /\ cv_in = [NoTensors EXCEPT !.q =
                   <<Arange(<<Cfg.heads * HeadSize>> \o TailOf(Cfg.suffix))>>]
    /\ cv_mid = NoTensors
    /\ cv_out = NoTensors
    /\ cv_exc = <<>>

RotaryStart ==
    /\ RotaryInit /\ HeadIdle /\ LaterIdle
    /\ WriterIdle /\ ReaderIdle /\ CtorIdle /\ CSWriter__init__ /\ SizeIdle

RotaryNext == ConvertQuery \/ ConvertKey \/ FalconInterleave \/ FalconReverse

RotarySpec == RotaryStart /\ [][RotaryNext]_vars

\* row i (from 0) of a tensor, over its remaining dimensions
Row(t, i) ==
    LET w == Prod(Tail(t.shape)) IN [c \in 1..w |-> t.data[i * w + c]]

\* a rotary_dim that rotary embeddings allow: even, within the head
ValidRotary ==
    /\ Cfg.model.rotary_dim % 2 = 0
    /\ Cfg.model.rotary_dim <= HeadSize

\* C17: the rotary interleave is exactly invertible: converting a bias or a
\* weight whose leading dimension is heads * head_size from HF to CS and
\* back returns the tensor element for element, and the interleave permutes
\* the first rotary_dim rows of each head among themselves and leaves the
\* rows beyond rotary_dim in place (Llama query and key, Falcon helpers
\* with groups).
C17_InterleaveInvertible ==
    (cv_config # <<>> /\ Cfg.run \in {"query", "key", "falcon"}
       /\ ValidRotary)
    => /\ \A i \in 1..Len(cv_exc) : cv_exc[i] = "none"
       /\ Len(cv_exc) >= 1 =>
             /\ cv_mid.q # <<>>
             /\ cv_mid.q[1].shape = cv_in.q[1].shape
             /\ \A h \in 0..(Cfg.heads - 1) :
                   /\ \A i \in Cfg.model.rotary_dim..(HeadSize - 1) :
                         Row(cv_mid.q[1], h * HeadSize + i)
                            = Row(cv_in.q[1], h * HeadSize + i)
                   /\ { Row(cv_mid.q[1], h * HeadSize + i) :
                           i \in 0..(Cfg.model.rotary_dim - 1) }
                      = { Row(cv_in.q[1], h * HeadSize + i) :
                             i \in 0..(Cfg.model.rotary_dim - 1) }
       /\ Len(cv_exc) = 2 => cv_out = cv_in

\* a weight of several heads went there and back, with rows that moved and
\* rows beyond rotary_dim
C17_Witness ==
    /\ cv_config # <<>> /\ Cfg.run = "query" /\ Cfg.suffix = "weight"
    /\ Cfg.heads >= 2
    /\ Cfg.model.rotary_dim >= 4 /\ Cfg.model.rotary_dim < HeadSize
    /\ cv_exc = <<"none", "none">>
    /\ cv_mid # cv_in
    /\ cv_out = cv_in

----------------------------------------------------------------------------
(* Falcon query_key_value <-> proj_q/k/v_dense_layer.  The tensors given   *)
(* are laid out for the heads, groups and head size of `layout`, which is  *)
(* the config's or differs from it in one of the three.                    *)

Layouts(m) ==
    LET own == [num_heads |-> m.num_heads, num_kv_groups |-> m.num_kv_groups,
                head_size |-> m.hidden_size \div m.num_heads]
    IN {own}
       \cup { [own EXCEPT !.num_heads = H] : H \in 1..MaxHeads }
       \cup { [own EXCEPT !.num_kv_groups = G] : G \in 1..MaxHeads }
       \cup { [own EXCEPT !.head_size = hs] : hs \in HeadSizes }

QKVModels ==
    { Model(H, G, hs, hs, "multiquery_attention") :
         H \in 1..MaxHeads, G \in 1..MaxHeads, hs \in HeadSizes }

QKVRuns ==
    UNION { { [run |-> run, suffix |-> sfx, model |-> m, layout |-> l] :
                 run \in {"split_first", "merge_first"},
                 sfx \in {"weight", "bias"}, l \in Layouts(m) } :
            m \in QKVModels }

\* the rows of q, and of k and of v, and of the packed tensor
QRows(l) == l.head_size * l.num_heads
KVRows(l) == l.head_size * l.num_kv_groups
PackedRows(l) == l.head_size * (l.num_heads + 2 * l.num_kv_groups)

QKVInit ==
    /\ cv_config \in { <<c>> : c \in QKVRuns }
    /\ LET l == Cfg.layout
           tail == TailOf(Cfg.suffix)
           w == Prod(tail)
       IN cv_in =
             IF Cfg.run = "split_first"
             THEN [NoTensors EXCEPT
                     !.packed = <<Arange(<<PackedRows(l)>> \o tail)>>]
             ELSE [NoTensors EXCEPT
                     !.q = <<Arange(<<QRows(l)>> \o tail)>>,
                     !.k = <<ArangeFrom(<<KVRows(l)>> \o tail, QRows(l) * w)>>,
                     !.v = <<ArangeFrom(<<KVRows(l)>> \o tail,
                                        (QRows(l) + KVRows(l)) * w)>>]
    /\ cv_mid = NoTensors
    /\ cv_out = NoTensors
    /\ cv_exc = <<>>

\* qkv_converter, HF -> CS and back or CS -> HF and back
QKVConvert ==
    /\ cv_config # <<>> /\ Cfg.run \in {"split_first", "merge_first"}
    /\ ConvRunning
    /\ LET from_index == IF Cfg.run = "split_first" THEN Len(cv_exc)
                         ELSE 1 - Len(cv_exc)
           r == qkv_converter(OldStateDict, NoTensors, from_index, Cfg.model,
                              Cfg.suffix)
       IN ConvDone(r.new, r.exc)

QKVStart ==
    /\ QKVInit /\ HeadIdle /\ LaterIdle
    /\ WriterIdle /\ ReaderIdle /\ CtorIdle /\ CSWriter__init__ /\ SizeIdle

QKVNext == QKVConvert

QKVSpec == QKVStart /\ [][QKVNext]_vars

\* the config's own heads, groups and head size
OwnLayout ==
    [num_heads |-> Cfg.model.num_heads,
     num_kv_groups |-> Cfg.model.num_kv_groups, head_size |-> HeadSize]

\* the config is consistent and the tensors are laid out for it
ConsistentQKV ==
    /\ Cfg.layout = OwnLayout
    /\ Cfg.model.num_heads % Cfg.model.num_kv_groups = 0
    /\ HeadSize % 2 = 0

\* C18: the Falcon split of the packed QKV tensor and the merge are mutual
\* inverses, for weights and biases and every num_kv_groups that divides
\* num_heads: split then merge returns the packed tensor, merge then split
\* returns q, k and v; the split gives q of head_size * num_heads rows and
\* k and v of head_size * num_kv_groups rows.
C18_SplitMergeInverse ==
    (cv_config # <<>> /\ Cfg.run \in {"split_first", "merge_first"}
       /\ ConsistentQKV)
    => /\ \A i \in 1..Len(cv_exc) : cv_exc[i] = "none"
       /\ (Len(cv_exc) >= 1 /\ Cfg.run = "split_first") =>
             /\ cv_mid.packed = <<>>
             /\ cv_mid.q[1].shape = <<QRows(OwnLayout)>> \o TailOf(Cfg.suffix)
             /\ cv_mid.k[1].shape = <<KVRows(OwnLayout)>> \o TailOf(Cfg.suffix)
             /\ cv_mid.v[1].shape = <<KVRows(OwnLayout)>> \o TailOf(Cfg.suffix)
       /\ (Len(cv_exc) >= 1 /\ Cfg.run = "merge_first") =>
             /\ cv_mid.q = <<>> /\ cv_mid.k = <<>> /\ cv_mid.v = <<>>
             /\ cv_mid.packed[1].shape
                   = <<PackedRows(OwnLayout)>> \o TailOf(Cfg.suffix)
       /\ Len(cv_exc) = 2 => cv_out = cv_in

\* a grouped-query weight was split and merged back
C18_Witness ==
    /\ cv_config # <<>> /\ Cfg.run = "split_first" /\ Cfg.suffix = "weight"
    /\ ConsistentQKV
    /\ Cfg.model.num_kv_groups > 1
    /\ Cfg.model.num_kv_groups < Cfg.model.num_heads
    /\ HeadSize >= 4
    /\ cv_exc = <<"none", "none">>
    /\ cv_out = cv_in

\* the first conversion of the run was given tensors whose sizes are not
\* those of the config, or a config whose num_heads is not a multiple of
\* num_kv_groups
InconsistentQKV ==
    \/ Cfg.model.num_heads % Cfg.model.num_kv_groups # 0
    \/ IF Cfg.run = "split_first"
       THEN PackedRows(Cfg.layout) # PackedRows(OwnLayout)
       ELSE \/ QRows(Cfg.layout) # QRows(OwnLayout)
            \/ KVRows(Cfg.layout) # KVRows(OwnLayout)

\* C19: qkv_converter raises before it writes any key into new_state_dict
\* whenever the tensors' sizes are not those the config gives or num_heads
\* is not a multiple of num_kv_groups, in both directions.
C19_RaisesBeforeWriting ==
    (cv_config # <<>> /\ Cfg.run \in {"split_first", "merge_first"}
       /\ Len(cv_exc) >= 1 /\ InconsistentQKV)
    => cv_exc[1] # "none" /\ cv_mid = NoTensors

----------------------------------------------------------------------------
(* The headless converters HF -> CS: Converter_LlamaModel_HF_CS (llama.py) *)
(* and Converter_Falcon_40B_Headless_WithoutModelPrefix_HF_CS20            *)
(* (falcon_40b.py).  A state dict is a set of [key, tensor]; a key is a    *)
(* prefix and the name after it.                                           *)

NumEmbeddings == 3

Key(prefix, name) == [prefix |-> prefix, name |-> name]

\* a tensor of the source checkpoint, a freshly initialised one
\* (torch.zeros(...).normal_(mean=0.0, std=0.02)), or torch.zeros
Given(id) == [init |-> "given", id |-> id]
Normal == [init |-> "normal_", id |-> 0]
Zeros == [init |-> "zeros", id |-> 0]

Has(state_dict, key) == \E e \in state_dict : e.key = key

Get(state_dict, key) == (CHOOSE e \in state_dict : e.key = key).tensor

\* state_dict[key] = tensor
Set(state_dict, key, tensor) ==
    { e \in state_dict : e.key # key } \cup {[key |-> key, tensor |-> tensor]}

Hd == hd_config[1]

\* the HF name of the word embeddings in the converter's embedding rule
EmbeddingName(converter) ==
    IF converter = "llama" THEN "embed_tokens.weight"
    ELSE "word_embeddings.weight"

\* the key post_model_convert reads the word embeddings from
TiedEmbeddingKey(converter) ==
    IF converter = "llama" THEN Key("", "embed_tokens.weight")
    ELSE Key("transformer.", "word_embeddings.weight")

\* the prefix of the keys of a HF checkpoint with a head
HeadfulPrefix(converter) ==
    IF converter = "llama" THEN "model." ELSE "transformer."

\* post_model_convert up to the call of the base class: new_state_dict
\* and the exception
post_model_convert(old_state_dict, new_state_dict, c) ==
    IF c.direction # 0 THEN [new |-> new_state_dict, exc |-> "none"]
    ELSE
    LET use_bias_in_output ==
           IF c.use_bias_in_output = <<>> THEN FALSE
           ELSE c.use_bias_in_output[1]
        key_prefix == IF c.converter = "llama" THEN "" ELSE c.key_prefix
        with_weight(w) == Set(new_state_dict,
                              Key(key_prefix, "lm_head.weight"), w)
        with_bias(new) ==
           IF use_bias_in_output
           THEN Set(new, Key(key_prefix, "lm_head.bias"), Zeros)
           ELSE new
    IN
    IF c.tie_word_embeddings = <<>>
    THEN [new |-> new_state_dict, exc |-> "KeyError"]
    ELSE IF c.tie_word_embeddings[1]
    THEN IF Has(old_state_dict, TiedEmbeddingKey(c.converter))
         THEN [new |-> with_bias(with_weight(
                          Get(old_state_dict, TiedEmbeddingKey(c.converter)))),
               exc |-> "none"]
         ELSE [new |-> new_state_dict, exc |-> "KeyError"]
    ELSE [new |-> with_bias(with_weight(Normal)), exc |-> "none"]

\* the embedding rule: replaceKey copies the word embeddings of a headless
\* checkpoint to embedding_layer.word_embeddings.weight
ReplaceKeyEmbedding ==
    /\ hd_config # <<>> /\ hd_call.op = "none"
    /\ Hd.direction = 0
    /\ Has(hd_old, Key("", EmbeddingName(Hd.converter)))
    /\ hd_new' = Set(hd_new,
                     Key("", "embedding_layer.word_embeddings.weight"),
                     Get(hd_old, Key("", EmbeddingName(Hd.converter))))
    /\ hd_call' = [op |-> "replaceKey", exc |-> "none"]
    /\ UNCHANGED <<hd_config, hd_old, besidesHead>>

PostModelConvert ==
    /\ hd_config # <<>>
    /\ hd_call.op \in {"none", "replaceKey"}
    /\ LET r == post_model_convert(hd_old, hd_new, Hd) IN
       /\ hd_new' = r.new
       /\ hd_call' = [op |-> "post_model_convert", exc |-> r.exc]
    /\ UNCHANGED <<hd_config, hd_old, besidesHead>>

Optional(S) == {<<>>} \cup { <<x>> : x \in S }

HeadRuns ==
    { [converter |-> cv, direction |-> d, tie_word_embeddings |-> tie,
       use_bias_in_output |-> ub, headless |-> hl, key_prefix |-> kp,
       embedding |-> e] :
         cv \in {"llama", "falcon"}, d \in {0, 1},
         tie \in Optional(BOOLEAN), ub \in Optional(BOOLEAN),
         hl \in BOOLEAN, kp \in {"", "model."}, e \in 1..NumEmbeddings }

\* a HF checkpoint without a head, keys as the converter's rules name
\* them, or one with a head, keys under its prefix
HeadInit ==
    /\ hd_config \in { <<c>> : c \in { r \in HeadRuns :
                         r.converter = "llama" => r.key_prefix = "" } }
    /\ LET prefix == IF Hd.headless THEN ""
                     ELSE HeadfulPrefix(Hd.converter)
       IN hd_old =
             { [key |-> Key(prefix, EmbeddingName(Hd.converter)),
                tensor |-> Given(Hd.embedding)],
               [key |-> Key(prefix, "h.0.mlp.weight"),
                tensor |-> Given(0)] }
    /\ hd_new = {}
    /\ hd_call = [op |-> "none", exc |-> "none"]

HeadStart ==
    /\ HeadInit /\ ConvIdle /\ LaterIdle
    /\ WriterIdle /\ ReaderIdle /\ CtorIdle /\ CSWriter__init__ /\ SizeIdle

HeadNext == ReplaceKeyEmbedding \/ PostModelConvert

HeadSpec == HeadStart /\ [][HeadNext]_vars

\* C20: converting a headless HF state dict HF -> CS with
\* tie_word_embeddings = True completes and writes an lm_head.weight equal
\* to the word embeddings of that state dict; lm_head.bias is written, as
\* zeros, only when use_bias_in_output is true.
C20_TiedHeadIsEmbedding ==
    (hd_config # <<>> /\ hd_call.op = "post_model_convert"
       /\ Hd.direction = 0 /\ Hd.headless
       /\ Hd.tie_word_embeddings = <<TRUE>>)
    => LET key_prefix == Hd.key_prefix IN
       /\ hd_call.exc = "none"
       /\ Has(hd_new, Key(key_prefix, "lm_head.weight"))
       /\ Get(hd_new, Key(key_prefix, "lm_head.weight"))
             = Given(Hd.embedding)
       /\ Has(hd_new, Key(key_prefix, "lm_head.bias"))
             <=> Hd.use_bias_in_output = <<TRUE>>
       /\ Has(hd_new, Key(key_prefix, "lm_head.bias"))
             => Get(hd_new, Key(key_prefix, "lm_head.bias")) = Zeros

----------------------------------------------------------------------------
(* New keys and the last shard *)

\* the key a returned __setitem__ of a new key has added
AddedKeys == (DOMAIN weight_map') \ (DOMAIN weight_map)

\* C24: when __setitem__ returns for a key not written before, the key is
\* recorded in the highest-numbered shard there is after the call (the last
\* shard of before, or the shard the call has just created), never in an
\* earlier shard, also when an earlier shard was active before the call.
C24_NewKeyInLastShard ==
    [][(/\ last_call'.op = "__setitem__"
        /\ ~last_call'.existing
        /\ last_call'.exc = "none")
       => \A k \in AddedKeys :
            weight_map'[k] = get_filename(last_file_number',
                                          total_shards_finalized')]_vars

----------------------------------------------------------------------------
(* The active shard and the bookkeeping *)

\* C28: in every state reached by __setitem__, __getitem__ and save() calls,
\* active_file_name is a key of file_size, and every key held in
\* active_file_data is mapped by weight_map to active_file_name.
C28_ActiveShardIsBooked ==
    /\ active_file_name \in DOMAIN file_size
    /\ data_bound =>
         \A k \in DOMAIN active_file_data :
            /\ k \in DOMAIN weight_map
            /\ weight_map[k] = active_file_name

----------------------------------------------------------------------------
(* save() after writes only *)

\* a client that only assigns keys and saves
WriteOnlyNext == AddItem \/ UpdateItem \/ Save

WriteOnlySpec == Init /\ [][WriteOnlyNext]_vars

\* C29: a save() called after __setitem__ calls only (no save() has returned
\* before it) on a writer holding at least one key returns without raising,
\* also when the first tensor alone is larger than max_shard_size.
C29_SaveAfterWritesReturns ==
    [][(/\ last_call'.op = "save"
        /\ index_file = <<>>
        /\ weight_map # EmptyDict)
       => last_call'.exc = "none"]_vars

----------------------------------------------------------------------------
(* What a failed assignment leaves behind *)

\* the positions of the tensors of the value of the last __setitem__
TensorsOf(value) == { pos \in DOMAIN value : value[pos].t = "tensor" }

\* C30: a __setitem__ of a view that raises leaves self.state as it was and
\* has saved no tensor in the checkpoint file; and a __setitem__ that saves a
\* tensor in the file returns with a leaf marker in the skeleton at the
\* position of every tensor of the value.
C30_FailedSetItemChangesNothing ==
    [][ (cs_last_call'.op = "__setitem__")
        => /\ cs_last_call'.exc # "none"
              => cs_state' = cs_state /\ cs_h5' = cs_h5
           /\ cs_h5' # cs_h5
              => LET q == cs_last_call'.prefix \o cs_last_call'.key IN
                 \A pos \in TensorsOf(cs_last_value') :
                    /\ (q \o pos) \in DOMAIN cs_state'
                    /\ cs_state'[q \o pos] = "leaf" ]_vars

----------------------------------------------------------------------------
(* The config converters ConfigConverter_LLaMa_HF_CS20 (llama.py) and      *)
(* ConfigConverter_Falcon_40B_HF_CS20 (falcon_40b.py).  A config is a      *)
(* function from key to value, a value a record [t, n, s] of its type, its *)
(* number and its string.  The keys modelled are those of the hidden size, *)
(* the head counts, the attention module and the rotary dimension; every   *)
(* other key of a config holds a value that its rule accepts.  The loop of *)
(* the base class around the rules: the pre-convert defaults fill the keys *)
(* the old config lacks, every key of the old config fires the first rule  *)
(* that matches it, a key that no rule matches is left out, and the        *)
(* post-convert defaults fill the keys the new config lacks.               *)

MaxConfigHeads == 4
LlamaDefaultHiddenSize == 4096
LlamaDefaultHeads == 32

HiddenSizes == {4, 6, 8}

IntV(n) == [t |-> "int", n |-> n, s |-> ""]
NoneV == [t |-> "None", n |-> 0, s |-> ""]
StrV(s) == [t |-> "str", n |-> 0, s |-> s]
\* the dict {"num_kv_groups": n}, and the dict {}
GroupsV(n) == [t |-> "dict", n |-> n, s |-> "num_kv_groups"]
EmptyV == [t |-> "dict", n |-> 0, s |-> ""]

\* for key in defaults: if key not in config: config[key] = defaults[key]
WithDefaults(config, defaults) ==
    [k \in (DOMAIN config) \cup (DOMAIN defaults) |->
        IF k \in DOMAIN config THEN config[k] ELSE defaults[k]]

\* the conversion so far: the new config and the exception raised, if any
Converted(config) == [config |-> config, exc |-> "none"]
Failed(c, e) == [c EXCEPT !.exc = e]

\* new_state_dict[new_key] = old_state_dict[old_key]
replaceKey(old_key, new_key, old, c) ==
    [c EXCEPT !.config = Put(@, new_key, old[old_key])]

\* ---- ConfigConverter_LLaMa_HF_CS20

Llama_pre_convert_defaults(from_index) ==
    IF from_index = 0
    THEN [hidden_size |-> IntV(LlamaDefaultHiddenSize),
          num_attention_heads |-> IntV(LlamaDefaultHeads)]
    ELSE EmptyDict

convert_gqa(old_key, new_key, old, c, from_index) ==
    IF from_index = 0
    THEN IF old[old_key] = old["num_attention_heads"]
         THEN [c EXCEPT !.config =
                  Put(@, "attention_module", StrV("aiayn_attention"))]
         ELSE IF old["num_attention_heads"].n % old[old_key].n # 0
         THEN Failed(c, "AssertionError")
         ELSE [c EXCEPT !.config =
                  Put(Put(@, new_key, GroupsV(old[old_key].n)),
                      "attention_module", StrV("multiquery_attention"))]
    ELSE
    LET attention_module ==
            IF "attention_module" \in DOMAIN old THEN old["attention_module"]
            ELSE StrV("aiayn_attention")
    IN  IF attention_module = StrV("aiayn_attention")
        THEN IF old[old_key].s = "num_kv_groups"
             THEN Failed(c, "AssertionError")
             \* new_state_dict[new_key] = old_state_dict[old_key]["num_heads"]
             \* and the dict {} holds no "num_heads"
             ELSE Failed(c, "KeyError")
        ELSE IF attention_module = StrV("multiquery_attention")
        THEN IF "num_heads" \notin DOMAIN old THEN Failed(c, "KeyError")
             ELSE IF old[old_key].s # "num_kv_groups"
             THEN Failed(c, "KeyError")
             ELSE IF old["num_heads"].n % old[old_key].n # 0
             THEN Failed(c, "AssertionError")
             ELSE [c EXCEPT !.config = Put(@, new_key, IntV(old[old_key].n))]
        ELSE Failed(c, "AssertionError")

assert_rotary_dim(old_key, old, c) ==
    IF "hidden_size" \notin DOMAIN old \/ "num_heads" \notin DOMAIN old
    THEN Failed(c, "KeyError")
    ELSE IF old[old_key] # IntV(old["hidden_size"].n \div old["num_heads"].n)
    THEN Failed(c, "ConfigConversionError: rotary_dim must be hidden_size // num_heads")
    ELSE c

Llama_pre_config_convert(config, from_index) ==
    LET c == Converted(WithDefaults(config,
                                    Llama_pre_convert_defaults(from_index)))
    IN  IF from_index = 1
           /\ ("rotary_dim" \notin DOMAIN c.config
                 \/ c.config["rotary_dim"] = NoneV)
        THEN Failed(c, "ConfigConversionError: rotary_dim must be specified")
        ELSE c

\* the rules of the converter in their order, each fired by its key
Llama_rules(old, from_index) ==
    LET gqa_key == IF from_index = 0 THEN "num_key_value_heads"
                   ELSE "extra_attention_params"
        gqa_new == IF from_index = 0 THEN "extra_attention_params"
                   ELSE "num_key_value_heads"
        heads_key == IF from_index = 0 THEN "num_attention_heads"
                     ELSE "num_heads"
        heads_new == IF from_index = 0 THEN "num_heads"
                     ELSE "num_attention_heads"
        c0 == Converted(EmptyDict)
        c1 == IF gqa_key \in DOMAIN old
              THEN convert_gqa(gqa_key, gqa_new, old, c0, from_index) ELSE c0
        c2 == IF c1.exc = "none" /\ "hidden_size" \in DOMAIN old
              THEN replaceKey("hidden_size", "hidden_size", old, c1) ELSE c1
        c3 == IF c2.exc = "none" /\ heads_key \in DOMAIN old
              THEN replaceKey(heads_key, heads_new, old, c2) ELSE c2
        c4 == IF c3.exc = "none" /\ from_index = 1
                 /\ "rotary_dim" \in DOMAIN old
              THEN assert_rotary_dim("rotary_dim", old, c3) ELSE c3
    IN  c4

\* post_config_convert that copies hidden_size into rotary_dim
LlamaPostRotaryIsHidden(c, from_index) ==
    IF from_index = 0
    THEN [c EXCEPT !.config = Put(@, "rotary_dim", c.config["hidden_size"])]
    ELSE c

Llama_post_config_convert(c, from_index) ==
    IF from_index = 0
    THEN [c EXCEPT !.config =
             Put(@, "rotary_dim",
                 IntV(c.config["hidden_size"].n \div c.config["num_heads"].n))]
    ELSE c

Llama_convert(config, from_index) ==
    LET pre == Llama_pre_config_convert(config, from_index) IN
    IF pre.exc # "none" THEN Failed(Converted(EmptyDict), pre.exc)
    ELSE
    LET c == Llama_rules(pre.config, from_index) IN
    IF c.exc # "none" THEN c
    ELSE Llama_post_config_convert(c, from_index)

\* ---- ConfigConverter_Falcon_40B_HF_CS20

\* self.defaults[direction]
Falcon_defaults(direction) ==
    IF direction = 0 THEN EmptyDict
    ELSE [attention_module |-> StrV("multiquery_attention"),
          extra_attention_params |-> GroupsV(1)]

convert_num_head_groups(old_key, new_key, old, c, from_index) ==
    IF from_index = 0
    THEN [c EXCEPT !.config = Put(@, new_key, GroupsV(old[old_key].n))]
    ELSE IF old[old_key].s # "num_kv_groups" THEN Failed(c, "KeyError")
    ELSE [c EXCEPT !.config = Put(@, new_key, IntV(old[old_key].n))]

convert_hidden_size(old_key, new_key, old, c, from_index) ==
    LET c1 == replaceKey(old_key, new_key, old, c) IN
    IF from_index = 0
    THEN [c1 EXCEPT !.config = Put(@, "filter_size", IntV(old[old_key].n * 4))]
    ELSE IF "filter_size" \notin DOMAIN old THEN Failed(c1, "KeyError")
    ELSE IF IntV(old[old_key].n * 4) # old["filter_size"]
    THEN Failed(c1, "AssertionError: HF model only supports filter_size = 4 * hidden_size")
    ELSE c1

Falcon_pre_config_convert(config, direction) ==
    Converted(WithDefaults(config, Falcon_defaults(direction)))

Falcon_rules(old, direction) ==
    LET heads_key == IF direction = 0 THEN "n_head" ELSE "num_heads"
        heads_new == IF direction = 0 THEN "num_heads" ELSE "n_head"
        groups_key == IF direction = 0 THEN "n_head_kv"
                      ELSE "extra_attention_params"
        groups_new == IF direction = 0 THEN "extra_attention_params"
                      ELSE "n_head_kv"
        c0 == Converted(EmptyDict)
        c1 == IF "hidden_size" \in DOMAIN old
              THEN convert_hidden_size("hidden_size", "hidden_size", old, c0,
                                       direction)
              ELSE c0
        c2 == IF c1.exc = "none" /\ heads_key \in DOMAIN old
              THEN replaceKey(heads_key, heads_new, old, c1) ELSE c1
        c3 == IF c2.exc = "none" /\ groups_key \in DOMAIN old
              THEN convert_num_head_groups(groups_key, groups_new, old, c2,
                                           direction)
              ELSE c2
    IN  c3

Falcon_post_config_convert(old_config, c, direction) ==
    LET c1 == [c EXCEPT !.config =
                  WithDefaults(@, Falcon_defaults(1 - direction))]
    IN
    IF direction = 0
    THEN IF "hidden_size" \notin DOMAIN old_config
            \/ "n_head" \notin DOMAIN old_config
         THEN Failed(c1, "KeyError")
         ELSE [c1 EXCEPT !.config =
                  Put(@, "rotary_dim",
                      IntV(old_config["hidden_size"].n
                             \div old_config["n_head"].n))]
    ELSE IF "rotary_dim" \notin DOMAIN old_config
            \/ "hidden_size" \notin DOMAIN old_config
            \/ "num_heads" \notin DOMAIN old_config
         THEN Failed(c1, "KeyError")
         ELSE IF old_config["rotary_dim"]
                   # IntV(old_config["hidden_size"].n
                            \div old_config["num_heads"].n)
         THEN Failed(c1, "AssertionError: rotary dimension of falcon is equal to head_dim")
         ELSE c1

Falcon_convert(config, direction) ==
    LET pre == Falcon_pre_config_convert(config, direction)
        c == Falcon_rules(pre.config, direction)
    IN  IF c.exc # "none" THEN c
        ELSE Falcon_post_config_convert(pre.config, c, direction)

\* BaseConfigConverter.convert of the converter class
ConfigConvert(conv, config, direction) ==
    IF conv = "llama" THEN Llama_convert(config, direction)
    ELSE Falcon_convert(config, direction)

\* ---- the configs given to a conversion

ConfigConverters == {"llama", "falcon"}

\* the config with the key absent, or with one of the values
Entry(key, values) == {EmptyDict} \cup { key :> v : v \in values }

HeadsKey(conv, direction) ==
    IF direction = 1 THEN "num_heads"
    ELSE IF conv = "llama" THEN "num_attention_heads" ELSE "n_head"

GroupsKey(conv) == IF conv = "llama" THEN "num_key_value_heads" ELSE "n_head_kv"

HeadCounts == { IntV(n) : n \in 1..MaxConfigHeads }

HFConfigs(conv) ==
    { h @@ a @@ g :
        h \in Entry("hidden_size", { IntV(n) : n \in HiddenSizes }),
        a \in Entry(HeadsKey(conv, 0), HeadCounts),
        g \in Entry(GroupsKey(conv), HeadCounts) }

CSConfigs(conv) ==
    UNION { { ("hidden_size" :> IntV(h)) @@ ("num_heads" :> IntV(a))
                @@ (IF conv = "falcon" THEN "filter_size" :> IntV(4 * h)
                    ELSE EmptyDict)
                @@ r @@ m @@ g :
                r \in Entry("rotary_dim",
                            {NoneV, IntV(h \div a), IntV(h \div a + 1)}),
                m \in Entry("attention_module",
                            { StrV(s) : s \in {"aiayn_attention",
                                               "multiquery_attention",
                                               "other"} }),
                g \in Entry("extra_attention_params",
                            {EmptyV} \cup { GroupsV(n) :
                                              n \in 1..MaxConfigHeads }) } :
            h \in HiddenSizes, a \in 1..MaxConfigHeads }

ConfigInit ==
    /\ cf_conv \in ConfigConverters
    /\ \/ \E c \in HFConfigs(cf_conv) : cf_hf = <<c>> /\ cf_cs = <<>>
       \/ \E c \in CSConfigs(cf_conv) : cf_hf = <<>> /\ cf_cs = <<c>>
    /\ cf_out = <<>>
    /\ cf_call = [op |-> "none", exc |-> "none"]

\* convert the HF config to a CS config
ConfigHFtoCS ==
    /\ cf_call.op = "none"
    /\ cf_hf # <<>>
    /\ LET c == ConfigConvert(cf_conv, cf_hf[1], 0) IN
       /\ cf_cs' = IF c.exc = "none" THEN <<c.config>> ELSE <<>>
       /\ cf_call' = [op |-> "hf_to_cs", exc |-> c.exc]
    /\ UNCHANGED <<cf_conv, cf_hf, cf_out, besidesConfig>>

\* convert the CS config, given or produced, to an HF config
ConfigCStoHF ==
    /\ cf_call.op \in {"none", "hf_to_cs"}
    /\ cf_cs # <<>>
    /\ LET c == ConfigConvert(cf_conv, cf_cs[1], 1) IN
       /\ cf_out' = IF c.exc = "none" THEN <<c.config>> ELSE <<>>
       /\ cf_call' = [op |-> "cs_to_hf", exc |-> c.exc]
    /\ UNCHANGED <<cf_conv, cf_hf, cf_cs, besidesConfig>>

ConfigStart ==
    /\ ConfigInit /\ RegistryIdle /\ LoaderIdle /\ StateDictIdle
    /\ WriterIdle /\ ReaderIdle /\ CtorIdle /\ CSWriter__init__ /\ SizeIdle
    /\ ConvertersIdle

ConfigNext == ConfigHFtoCS \/ ConfigCStoHF

ConfigSpec == ConfigStart /\ [][ConfigNext]_vars

\* the rotary check of CS -> HF accepts the config
RotaryValid(config) ==
    /\ "rotary_dim" \in DOMAIN config
    /\ config["rotary_dim"].t = "int"
    /\ config["rotary_dim"].n
         = config["hidden_size"].n \div config["num_heads"].n

RotaryErrors ==
    {"ConfigConversionError: rotary_dim must be specified",
     "ConfigConversionError: rotary_dim must be hidden_size // num_heads",
     "AssertionError: rotary dimension of falcon is equal to head_dim"}

\* C22: HF -> CS sets rotary_dim to hidden_size // number of heads of the
\* config it converts; CS -> HF returns only for a config whose rotary_dim
\* is an int equal to hidden_size // num_heads; and a CS config produced by
\* HF -> CS is not rejected by the rotary check of CS -> HF.
C22_RotaryDerivedAndValidated ==
    /\ (cf_call.op = "hf_to_cs" /\ cf_call.exc = "none")
       => /\ RotaryValid(cf_cs[1])
          /\ "hidden_size" \in DOMAIN cf_hf[1]
             => cf_cs[1]["hidden_size"] = cf_hf[1]["hidden_size"]
          /\ HeadsKey(cf_conv, 0) \in DOMAIN cf_hf[1]
             => cf_cs[1]["num_heads"] = cf_hf[1][HeadsKey(cf_conv, 0)]
    /\ (cf_call.op = "cs_to_hf" /\ cf_call.exc = "none")
       => RotaryValid(cf_cs[1])
    /\ (cf_call.op = "cs_to_hf" /\ cf_hf # <<>>)
       => cf_call.exc \notin RotaryErrors

\* a config made by HF -> CS went back through CS -> HF, and a config
\* given with a rotary_dim of its own was rejected for it
C22_Witness ==
    /\ cf_call.op = "cs_to_hf"
    /\ cf_hf # <<>>
    /\ cf_call.exc = "none"
    /\ cf_out # <<>>
    /\ "hidden_size" \in DOMAIN cf_hf[1]
    /\ cf_cs[1]["rotary_dim"].n < cf_cs[1]["hidden_size"].n

\* the head counts of a CS config agree with its attention module
GqaValid(config) ==
    /\ "attention_module" \in DOMAIN config
    /\ IF config["attention_module"].s = "aiayn_attention"
       THEN "extra_attention_params" \in DOMAIN config
               => config["extra_attention_params"] = EmptyV
       ELSE /\ config["attention_module"].s = "multiquery_attention"
            /\ "extra_attention_params" \in DOMAIN config
            /\ config["extra_attention_params"].s = "num_kv_groups"
            /\ config["num_heads"].n % config["extra_attention_params"].n = 0

\* the num_key_value_heads of a CS config
KVHeadsOf(config) ==
    IF config["attention_module"].s = "multiquery_attention"
    THEN IntV(config["extra_attention_params"].n)
    ELSE config["num_heads"]

\* C25: Llama HF -> CS maps num_key_value_heads equal to the head count to
\* aiayn_attention and a divisor of the head count to multiquery_attention
\* with num_kv_groups = num_key_value_heads, and rejects a non-divisor;
\* CS -> HF maps aiayn_attention to num_key_value_heads = num_heads and
\* multiquery_attention to num_key_value_heads = num_kv_groups; so
\* HF -> CS -> HF gives back the num_key_value_heads it was given.
C25_KVHeadsPreserved ==
    cf_conv = "llama"
    => /\ (cf_call.op = "hf_to_cs"
             /\ "num_key_value_heads" \in DOMAIN cf_hf[1])
          => LET hf == WithDefaults(cf_hf[1], Llama_pre_convert_defaults(0))
                 kv == hf["num_key_value_heads"]
                 heads == hf["num_attention_heads"]
             IN  IF heads.n % kv.n # 0 THEN cf_call.exc # "none"
                 ELSE /\ cf_call.exc = "none"
                      /\ cf_cs[1]["attention_module"]
                           = IF kv = heads THEN StrV("aiayn_attention")
                             ELSE StrV("multiquery_attention")
                      /\ kv # heads
                         => cf_cs[1]["extra_attention_params"]
                              = GroupsV(kv.n)
       /\ (cf_call.op = "cs_to_hf" /\ RotaryValid(cf_cs[1])
             /\ GqaValid(cf_cs[1]))
          => /\ cf_call.exc = "none"
             /\ "num_key_value_heads" \in DOMAIN cf_out[1]
             /\ cf_out[1]["num_key_value_heads"] = KVHeadsOf(cf_cs[1])
       /\ (cf_call.op = "cs_to_hf" /\ cf_hf # <<>>
             /\ "num_key_value_heads" \in DOMAIN cf_hf[1])
          => /\ cf_call.exc = "none"
             /\ "num_key_value_heads" \in DOMAIN cf_out[1]
             /\ cf_out[1]["num_key_value_heads"]
                  = cf_hf[1]["num_key_value_heads"]

----------------------------------------------------------------------------
(* GLOBAL_CALLBACK_REGISTRY, register_global_callback and the context      *)
(* manager of Callback (trainer/callbacks/callback.py).  The registry maps *)
(* the id of a torch.utils.hooks.RemovableHandle to a callback instance;   *)
(* a handle takes the next id of a counter of the process, and its         *)
(* remove() deletes its id from the registry when it is there.  The        *)
(* attribute _global_callback_handle lives on an instance (set by          *)
(* __enter__) or on a class (set by register_global_callback of a class).  *)

MaxHandles == 4
MaxCallbacks == 1
MaxBlockDepth == 2

CallbackClasses == {"A", "B"}

\* the callback instances the program holds, and the instance that
\* register_global_callback makes of a class (known by its handle)
UserCallbacks ==
    { [cls |-> c, n |-> k, made |-> "user"] :
        c \in CallbackClasses, k \in 1..MaxCallbacks }

MadeCallback(c, id) == [cls |-> c, n |-> id, made |-> "register"]

\* hooks.RemovableHandle(GLOBAL_CALLBACK_REGISTRY);
\* GLOBAL_CALLBACK_REGISTRY[handle.id] = callback
RegistrySelf ==
    [registry |-> rg_registry, next_id |-> rg_next_id,
     class_handle |-> rg_class_handle, inst_handle |-> rg_inst_handle,
     handle |-> <<>>, exc |-> "none"]

NewHandle(g, callback) ==
    [g EXCEPT !.registry = Put(@, g.next_id, callback),
              !.next_id = @ + 1,
              !.handle = <<g.next_id>>]

\* RemovableHandle.remove()
HandleRemove(g, id) ==
    IF id \in DOMAIN g.registry
    THEN [g EXCEPT !.registry = Drop(@, id)]
    ELSE g

\* register_global_callback(callback) for an instance of Callback
register_global_callback(g, callback) == NewHandle(g, callback)

\* register_global_callback(callback) for a subclass of Callback
register_global_callback_class(g, c) ==
    LET g1 == NewHandle(g, MadeCallback(c, g.next_id)) IN
    [g1 EXCEPT !.class_handle = Put(@, c, g1.handle[1])]

\* hasattr(self, "_global_callback_handle"): on the instance or its class
hasattr_handle(g, self) ==
    self \in DOMAIN g.inst_handle \/ self.cls \in DOMAIN g.class_handle

Callback__enter__(g, self) ==
    IF ~hasattr_handle(g, self)
    THEN LET g1 == register_global_callback(g, self) IN
         [g1 EXCEPT !.inst_handle = Put(@, self, g1.handle[1])]
    ELSE g

Callback__exit__(g, self) ==
    IF hasattr_handle(g, self)
    THEN IF self \in DOMAIN g.inst_handle
         THEN LET g1 == HandleRemove(g, g.inst_handle[self]) IN
              [g1 EXCEPT !.inst_handle = Drop(@, self)]
         ELSE \* the attribute of the class: del on the instance raises
              [HandleRemove(g, g.class_handle[self.cls])
                 EXCEPT !.exc = "AttributeError"]
    ELSE g

RegistryBecomes(g) ==
    /\ rg_registry' = g.registry
    /\ rg_next_id' = g.next_id
    /\ rg_class_handle' = g.class_handle
    /\ rg_inst_handle' = g.inst_handle

\* what the open with-blocks of the instance have registered, innermost last
BlocksOf(blocks, self) ==
    IF self \in DOMAIN blocks THEN blocks[self] ELSE <<>>

\* register_global_callback(instance)
RegisterInstance ==
    \E self \in UserCallbacks :
       /\ rg_next_id < MaxHandles
       /\ RegistryBecomes(register_global_callback(RegistrySelf, self))
       /\ rg_call' = [op |-> "register", self |-> <<self>>, exc |-> "none"]
       /\ UNCHANGED <<rg_blocks, besidesRegistry>>

\* register_global_callback(Class), also as a class decorator
RegisterClass ==
    \E c \in CallbackClasses :
       /\ rg_next_id < MaxHandles
       /\ RegistryBecomes(register_global_callback_class(RegistrySelf, c))
       /\ rg_call' = [op |-> "register_class", self |-> <<>>, exc |-> "none"]
       /\ UNCHANGED <<rg_blocks, besidesRegistry>>

\* `with self:` is entered
Enter ==
    \E self \in UserCallbacks :
       /\ rg_next_id < MaxHandles
       /\ Len(BlocksOf(rg_blocks, self)) < MaxBlockDepth
       /\ LET g == Callback__enter__(RegistrySelf, self) IN
          /\ RegistryBecomes(g)
          /\ rg_blocks' = Put(rg_blocks, self,
                              Append(BlocksOf(rg_blocks, self), g.handle))
       /\ rg_call' = [op |-> "__enter__", self |-> <<self>>, exc |-> "none"]
       /\ UNCHANGED besidesRegistry

\* the innermost with-block of self is left
Exit ==
    \E self \in UserCallbacks :
       /\ BlocksOf(rg_blocks, self) # <<>>
       /\ LET g == Callback__exit__(RegistrySelf, self) IN
          /\ RegistryBecomes(g)
          /\ rg_call' = [op |-> "__exit__", self |-> <<self>>, exc |-> g.exc]
       /\ rg_blocks' = Put(rg_blocks, self,
                           SubSeq(rg_blocks[self], 1, Len(rg_blocks[self]) - 1))
       /\ UNCHANGED besidesRegistry

RegistryStart ==
    /\ RegistryIdle /\ ConfigIdle /\ LoaderIdle /\ StateDictIdle
    /\ WriterIdle /\ ReaderIdle /\ CtorIdle /\ CSWriter__init__ /\ SizeIdle
    /\ ConvertersIdle

RegistryNext == RegisterInstance \/ RegisterClass \/ Enter \/ Exit

RegistrySpec == RegistryStart /\ [][RegistryNext]_vars

\* C26: a callback whose with-block is open is in GLOBAL_CALLBACK_REGISTRY;
\* __exit__ does not raise, and it takes out of the registry the
\* registration that the __enter__ of the block it closes has made, and
\* nothing else.
C26_RegisteredWhileInBlock ==
    [][ /\ \A self \in UserCallbacks :
              BlocksOf(rg_blocks', self) # <<>>
                 => self \in Range(rg_registry')
        /\ rg_call'.op = "__exit__"
           => LET self == rg_call'.self[1]
                  made == rg_blocks[self][Len(rg_blocks[self])]
              IN  /\ rg_call'.exc = "none"
                  /\ rg_registry' = IF made = <<>> THEN rg_registry
                                    ELSE Drop(rg_registry, made[1]) ]_vars

----------------------------------------------------------------------------
(* RestartableDataLoader (transformers/data_processing/h5_map_dataset/     *)
(* dataset.py) on the workers of a run.  A portion of the run starts with  *)
(* new worker processes (samples_streamed of every worker state is 0) and  *)
(* new loaders; a state dict is a function from its keys to numbers.       *)

NumWorkers == 2
MaxSamples == 3

Workers == 1..NumWorkers
Seeds == {1, 2}

Datasets == [seed : Seeds, shuffle : BOOLEAN]

\* RestartableDataLoader.state_dict of the loader of a worker
Loader_state_dict(streamed, previous, w) ==
    [samples_streamed |-> streamed[w],
     previous_samples_streamed |-> previous[w]]

RECURSIVE SumOfWorkers(_, _)
\* sum(sd["samples_streamed"] for sd in worker_states)
SumOfWorkers(worker_states, n) ==
    IF n = 0 THEN 0
    ELSE worker_states[n]["samples_streamed"]
           + SumOfWorkers(worker_states, n - 1)

\* the sum over the workers without the previous portions of the run
AggregateWithoutPrevious(worker_states, dataset) ==
    [samples_streamed |-> SumOfWorkers(worker_states, Len(worker_states)),
     seed |-> dataset.seed]

aggregate_state_dict(worker_states, dataset) ==
    [samples_streamed |->
        SumOfWorkers(worker_states, Len(worker_states))
          + worker_states[1]["previous_samples_streamed"],
     seed |-> dataset.seed]

\* validate_state_dict raises RuntimeError
Invalid(sd) ==
    Cardinality(DOMAIN sd) # 2
      \/ "samples_streamed" \notin DOMAIN sd
      \/ "seed" \notin DOMAIN sd

\* load_state_dict of one loader: its previous_samples_streamed, the state
\* of its sampler, and the exception raised
load_state_dict(previous, sampler, dataset, state_dict) ==
    IF Invalid(state_dict)
    THEN [previous |-> previous, sampler |-> sampler, exc |-> "RuntimeError"]
    ELSE IF dataset.shuffle /\ state_dict["seed"] # dataset.seed
    THEN [previous |-> state_dict["samples_streamed"], sampler |-> sampler,
          exc |-> "ValueError"]
    ELSE [previous |-> state_dict["samples_streamed"],
          sampler |-> <<state_dict["samples_streamed"]>>,
          exc |-> "none"]

\* the state dicts a restart may be given: the one saved, and ones with
\* other keys
StateDictsFrom(sd) ==
    { sd,
      [samples_streamed |-> sd["samples_streamed"]],
      [samples_streamed |-> sd["samples_streamed"],
       previous_samples_streamed |-> 0],
      [samples_streamed |-> sd["samples_streamed"], seed |-> sd["seed"],
       previous_samples_streamed |-> 0] }

LoaderInit ==
    /\ dl_dataset \in Datasets
    /\ dl_streamed = [w \in Workers |-> 0]
    /\ dl_previous = [w \in Workers |-> 0]
    /\ dl_sampler = [w \in Workers |-> <<>>]
    /\ dl_ckpt = <<>>
    /\ dl_total = 0
    /\ dl_call = [op |-> "__init__", exc |-> "none", given |-> <<>>]

\* a worker streams one sample
Stream ==
    \E w \in Workers :
       /\ dl_call.exc = "none"
       /\ dl_call.op # "restart"
       /\ dl_total < MaxSamples
       /\ dl_streamed' = [dl_streamed EXCEPT ![w] = @ + 1]
       /\ dl_total' = dl_total + 1
       /\ dl_call' = [op |-> "stream", exc |-> "none", given |-> <<>>]
       /\ UNCHANGED <<dl_dataset, dl_previous, dl_sampler, dl_ckpt,
                      besidesLoader>>

\* a checkpoint: state_dict on every worker, then aggregate_state_dict
SaveCheckpoint ==
    /\ dl_call.exc = "none"
    /\ dl_call.op # "restart"
    /\ LET worker_states ==
              [w \in Workers |-> Loader_state_dict(dl_streamed, dl_previous, w)]
       IN  dl_ckpt' = <<[state_dict |->
                           aggregate_state_dict(worker_states, dl_dataset),
                         streamed |-> dl_total]>>
    /\ dl_call' = [op |-> "save", exc |-> "none", given |-> <<>>]
    /\ UNCHANGED <<dl_dataset, dl_streamed, dl_previous, dl_sampler, dl_total,
                   besidesLoader>>

\* the run is started again from the checkpoint: new workers and loaders,
\* whose state is loaded before the run goes on
Restart ==
    /\ dl_ckpt # <<>>
    /\ dl_call.op # "restart"
    /\ dl_dataset' \in Datasets
    /\ dl_streamed' = [w \in Workers |-> 0]
    /\ dl_previous' = [w \in Workers |-> 0]
    /\ dl_sampler' = [w \in Workers |-> <<>>]
    /\ dl_total' = dl_ckpt[1].streamed
    /\ dl_call' = [op |-> "restart", exc |-> "none", given |-> <<>>]
    /\ UNCHANGED <<dl_ckpt, besidesLoader>>

\* load_state_dict on the loader of every worker
LoadStateDict ==
    /\ dl_call.op = "restart"
    /\ \E sd \in StateDictsFrom(dl_ckpt[1].state_dict) :
          LET loaded == [w \in Workers |->
                           load_state_dict(dl_previous[w], dl_sampler[w],
                                           dl_dataset, sd)]
          IN  /\ dl_previous' = [w \in Workers |-> loaded[w].previous]
              /\ dl_sampler' = [w \in Workers |-> loaded[w].sampler]
              /\ dl_call' = [op |-> "load_state_dict", exc |-> loaded[1].exc,
                             given |-> <<sd>>]
    /\ UNCHANGED <<dl_dataset, dl_streamed, dl_ckpt, dl_total, besidesLoader>>

LoaderStart ==
    /\ LoaderInit /\ ConfigIdle /\ RegistryIdle /\ StateDictIdle
    /\ WriterIdle /\ ReaderIdle /\ CtorIdle /\ CSWriter__init__ /\ SizeIdle
    /\ ConvertersIdle

LoaderNext == Stream \/ SaveCheckpoint \/ Restart \/ LoadStateDict

LoaderSpec == LoaderStart /\ [][LoaderNext]_vars

\* C27: the samples_streamed of an aggregated state dict is the number of
\* samples streamed by all workers over all portions of the run so far; a
\* load_state_dict that returns has given that number to the sampler of
\* every loader; and a state dict whose keys are not exactly
\* samples_streamed and seed is rejected with the loaders left as they were.
C27_SamplesStreamedIsGlobalCount ==
    [][ /\ dl_call'.op = "save"
           => dl_ckpt'[1].state_dict["samples_streamed"] = dl_total'
        /\ dl_call'.op = "load_state_dict"
           => IF DOMAIN dl_call'.given[1] = {"samples_streamed", "seed"}
              THEN dl_call'.exc = "none"
                     => \A w \in Workers : dl_sampler'[w] = <<dl_total'>>
              ELSE /\ dl_call'.exc = "RuntimeError"
                   /\ dl_previous' = dl_previous
                   /\ dl_sampler' = dl_sampler ]_vars

\* a checkpoint of a later portion: samples of the portions before it, and
\* samples of this portion on a worker
C27_Witness ==
    /\ dl_call.op = "save"
    /\ dl_previous[1] > 0
    /\ \E w \in Workers : dl_streamed[w] > 0
    /\ dl_ckpt[1].state_dict["samples_streamed"] = MaxSamples

----------------------------------------------------------------------------
(* llama.py: the checkpoint converters of Llama, HF <-> CS.  A key is the  *)
(* sequence of the components its dots separate, with a subkey that a      *)
(* rule names as a whole kept as one component ("mlp.up_proj",             *)
(* "transformer_decoder.layers"); a state dict is a function from keys to  *)
(* tensors.  A rule is a sequence of segments: a regular expression is the *)
(* sequence of the sets of components it admits, an EquivalentSubkey the   *)
(* components of its two sides, a converter the name of its class.         *)

NumLayers == 1

\* what \d+ admits
Digits == { ToString(i) : i \in 0..NumLayers }

\* what (?:weight|bias) admits
WeightOrBias == {"weight", "bias"}

Regex(classes) ==
    [kind |-> "regex", left |-> classes, right |-> classes, conv |-> "none"]

EquivalentSubkey(left, right) ==
    [kind |-> "equiv", left |-> left, right |-> right, conv |-> "none"]

Nested(converter) ==
    [kind |-> "converter", left |-> <<>>, right |-> <<>>, conv |-> converter]

ConversionRule(segments, action, exists) ==
    [segments |-> segments, action |-> action, exists |-> exists]

\* Converter_LlamaAttention_HF_CS.rules
LlamaAttention_rules ==
    << ConversionRule(<<EquivalentSubkey(<<"q_proj">>,
                                         <<"proj_q_dense_layer">>),
                        Regex(<<WeightOrBias>>)>>,
                      "convert_with_interleaving_query", "none"),
       ConversionRule(<<EquivalentSubkey(<<"k_proj">>,
                                         <<"proj_k_dense_layer">>),
                        Regex(<<WeightOrBias>>)>>,
                      "convert_with_interleaving_key", "none"),
       ConversionRule(<<EquivalentSubkey(<<"v_proj">>,
                                         <<"proj_v_dense_layer">>),
                        Regex(<<WeightOrBias>>)>>,
                      "replaceKey", "none"),
       ConversionRule(<<EquivalentSubkey(<<"o_proj">>,
                                         <<"proj_output_dense_layer">>),
                        Regex(<<WeightOrBias>>)>>,
                      "convert_output_and_inv_freq", "none") >>

\* a rule of a decoder layer: layers.N.<subkey>.(weight|bias)
LayerRule(hf, cs) ==
    ConversionRule(<<EquivalentSubkey(<<"layers">>,
                                      <<"transformer_decoder.layers">>),
                     Regex(<<Digits>>),
                     EquivalentSubkey(<<hf>>, <<cs>>),
                     Regex(<<WeightOrBias>>)>>,
                   "replaceKey", "none")

\* the rules of the model converter with no existence-only rule
LlamaModelRulesWithoutExists ==
    << ConversionRule(<<EquivalentSubkey(
                           <<"embed_tokens">>,
                           <<"embedding_layer.word_embeddings">>),
                        Regex(<<WeightOrBias>>)>>,
                      "replaceKey", "none"),
       ConversionRule(<<EquivalentSubkey(<<"norm">>,
                                         <<"transformer_decoder.norm">>),
                        Regex(<<WeightOrBias>>)>>,
                      "replace_final_norm", "none"),
       ConversionRule(<<EquivalentSubkey(<<"layers">>,
                                         <<"transformer_decoder.layers">>),
                        Regex(<<Digits, {"self_attn"}>>),
                        Nested("Converter_LlamaAttention_HF_CS")>>,
                      "none", "none"),
       LayerRule("input_layernorm", "norm1"),
       LayerRule("post_attention_layernorm", "norm3"),
       LayerRule("mlp.up_proj", "ffn.ffn.0.linear_layer"),
       LayerRule("mlp.gate_proj", "ffn.ffn.0.linear_layer_for_glu"),
       LayerRule("mlp.down_proj", "ffn.ffn.1.linear_layer") >>

\* Converter_LlamaModel_HF_CS.rules
LlamaModel_rules ==
    << ConversionRule(<<EquivalentSubkey(
                           <<"embed_tokens">>,
                           <<"embedding_layer.word_embeddings">>),
                        Regex(<<WeightOrBias>>)>>,
                      "replaceKey", "none"),
       ConversionRule(<<EquivalentSubkey(<<"norm">>,
                                         <<"transformer_decoder.norm">>),
                        Regex(<<WeightOrBias>>)>>,
                      "replace_final_norm", "none"),
       ConversionRule(<<EquivalentSubkey(<<"layers">>,
                                         <<"transformer_decoder.layers">>),
                        Regex(<<Digits, {"self_attn"}>>),
                        Nested("Converter_LlamaAttention_HF_CS")>>,
                      "none", "none"),
       ConversionRule(<<Regex(<<{"layers"}, Digits, {"self_attn"},
                                {"rotary_emb"}, {"inv_freq"}>>)>>,
                      "none", "left"),
       LayerRule("input_layernorm", "norm1"),
       LayerRule("post_attention_layernorm", "norm3"),
       LayerRule("mlp.up_proj", "ffn.ffn.0.linear_layer"),
       LayerRule("mlp.gate_proj", "ffn.ffn.0.linear_layer_for_glu"),
       LayerRule("mlp.down_proj", "ffn.ffn.1.linear_layer"),
       ConversionRule(<<Regex(<<{"lm_head"}, WeightOrBias>>)>>,
                      "none", "right"),
       ConversionRule(<<Regex(<<{"ln_f"}, WeightOrBias>>)>>,
                      "none", "right") >>

\* Converter_LlamaModel_HF_CS19.rules
LlamaModel19_rules ==
    << ConversionRule(<<Nested("Converter_LlamaModel_HF_CS")>>,
                      "none", "none"),
       ConversionRule(<<EquivalentSubkey(<<>>, <<"model">>),
                        Nested("Converter_LlamaModel_HF_CS")>>,
                      "none", "none") >>

\* Converter_LlamaForCausalLM_HF_CS.rules
LlamaForCausalLM_rules ==
    << ConversionRule(<<Regex(<<{"lm_head"}, WeightOrBias>>)>>,
                      "replaceKey", "none"),
       ConversionRule(<<EquivalentSubkey(<<"model">>, <<>>),
                        Nested("Converter_LlamaModel_HF_CS")>>,
                      "none", "none") >>

\* Converter_LlamaForCausalLM_HF_CS19.rules
LlamaForCausalLM19_rules ==
    << ConversionRule(<<Nested("Converter_LlamaForCausalLM_HF_CS")>>,
                      "none", "none"),
       ConversionRule(<<EquivalentSubkey(<<>>, <<"model">>),
                        Nested("Converter_LlamaForCausalLM_HF_CS")>>,
                      "none", "none") >>

\* self.rules of a converter class
RulesOf(converter) ==
    CASE converter = "Converter_LlamaAttention_HF_CS" -> LlamaAttention_rules
      [] converter = "Converter_LlamaModel_HF_CS" -> LlamaModel_rules
      [] converter = "Converter_LlamaModel_HF_CS19" -> LlamaModel19_rules
      [] converter = "Converter_LlamaForCausalLM_HF_CS" ->
            LlamaForCausalLM_rules
      [] converter = "Converter_LlamaForCausalLM_HF_CS19" ->
            LlamaForCausalLM19_rules

(* The key-pattern matcher and the conversion pass of the base converter. *)

NoMatch == [matched |-> FALSE, new_key |-> <<>>, action |-> "none",
            exists |-> "none"]

\* the rest of a key from component i on
From(key, i) == SubSeq(key, i, Len(key))

RECURSIVE MatchSegments(_, _, _, _, _), FirstMatch(_, _, _, _, _)

\* the segments of a rule from segment i on against the rest of a key,
\* anchored at both ends; new_key is the key of the other side so far
MatchSegments(rule, i, key, new_key, from_index) ==
    IF i > Len(rule.segments)
    THEN IF key = <<>>
         THEN [matched |-> TRUE, new_key |-> new_key,
               action |-> rule.action, exists |-> rule.exists]
         ELSE NoMatch
    ELSE LET s == rule.segments[i]
             old == IF from_index = 0 THEN s.left ELSE s.right
             new == IF from_index = 0 THEN s.right ELSE s.left
             n == Len(old)
         IN
         IF s.kind = "converter"
         THEN FirstMatch(RulesOf(s.conv), 1, key, new_key, from_index)
         ELSE IF Len(key) < n THEN NoMatch
         ELSE IF s.kind = "regex"
         THEN IF \A k \in 1..n : key[k] \in old[k]
              THEN MatchSegments(rule, i + 1, From(key, n + 1),
                                 new_key \o SubSeq(key, 1, n), from_index)
              ELSE NoMatch
         ELSE IF SubSeq(key, 1, n) = old
              THEN MatchSegments(rule, i + 1, From(key, n + 1),
                                 new_key \o new, from_index)
              ELSE NoMatch

\* the first rule from rule r on that matches the key
FirstMatch(rules, r, key, new_key, from_index) ==
    IF r > Len(rules) THEN NoMatch
    ELSE LET m == MatchSegments(rules[r], 1, key, new_key, from_index) IN
         IF m.matched THEN m
         ELSE FirstMatch(rules, r + 1, key, new_key, from_index)

\* re.sub of a run of components that `lead` components precede and
\* `trail` components follow, from component i of the key on
RECURSIVE re_sub(_, _, _, _, _, _)
re_sub(pattern, repl, key, i, lead, trail) ==
    IF i > Len(key) THEN <<>>
    ELSE IF i > lead /\ i + Len(pattern) - 1 + trail <= Len(key)
            /\ SubSeq(key, i, i + Len(pattern) - 1) = pattern
    THEN repl \o re_sub(pattern, repl, key, i + Len(pattern), lead, trail)
    ELSE <<key[i]>> \o re_sub(pattern, repl, key, i + 1, lead, trail)

\* 1.0 / (rotary_emb_base ** (torch.arange(0, rotary_dim, 2).float()
\* / rotary_dim)): element <<a, b>> stands for 10000 ** -(a / b)
inv_freq(rotary_dim) ==
    LET n == (rotary_dim + 1) \div 2 IN
    NDTensor(<<n>>, [i \in 1..n |-> <<2 * (i - 1), rotary_dim>>])

\* torch.zeros(shape)
zeros(shape) == NDTensor(shape, [i \in 1..Prod(shape) |-> 0])

\* torch.zeros(shape).normal_(mean=0.0, std=0.02): every element a draw
normal_(shape) == NDTensor(shape, [i \in 1..Prod(shape) |-> "normal_"])

\* the state of a conversion pass: new_state_dict, the keys no rule
\* matched, and the exception raised
Pass(sd, unmatched, exc) == [sd |-> sd, unmatched |-> unmatched, exc |-> exc]

\* new_state_dict[key] = tensor, or the exception of computing the tensor
Write(pass, key, tensor) ==
    IF tensor.exc # "none" THEN [pass EXCEPT !.exc = tensor.exc]
    ELSE [pass EXCEPT !.sd = Put(@, key, tensor)]

\* replace_final_norm
replace_final_norm(old_key, new_key, old_state_dict, pass, from_index) ==
    LET copied == Write(pass, new_key, old_state_dict[old_key])
        ln_f_key == re_sub(<<"transformer_decoder.norm">>, <<"ln_f">>,
                           new_key, 1, 0, 1)
    IN IF from_index = 0
       THEN Write(copied, ln_f_key, old_state_dict[old_key])
       ELSE copied

\* the output projection converted, and no inv_freq buffer recreated
ConvertOutputOnly(old_key, new_key, old_state_dict, pass, from_index, cs_config) ==
    Write(pass, new_key, old_state_dict[old_key])

\* convert_output_and_inv_freq
convert_output_and_inv_freq(old_key, new_key, old_state_dict, pass, from_index, cs_config) ==
    LET replaced == Write(pass, new_key, old_state_dict[old_key])
        inv_freq_key == re_sub(<<"o_proj", "weight">>,
                               <<"rotary_emb", "inv_freq">>,
                               new_key, 1, 1, 0)
    IN IF from_index = 1 /\ old_key[Len(old_key)] = "weight"
       THEN Write(replaced, inv_freq_key, inv_freq(cs_config.model.rotary_dim))
       ELSE replaced

\* the action of the rule that matched, or its existence constraint
Fire(m, old_key, old_state_dict, pass, from_index, configs) ==
    LET model == configs.cs.model IN
    IF m.exists # "none"
    THEN IF m.exists = (IF from_index = 0 THEN "left" ELSE "right")
         THEN pass
         ELSE [pass EXCEPT !.exc = "AssertionError"]
    ELSE CASE m.action = "replaceKey" ->
                 Write(pass, m.new_key, old_state_dict[old_key])
           [] m.action = "replace_final_norm" ->
                 replace_final_norm(old_key, m.new_key, old_state_dict,
                                    pass, from_index)
           [] m.action = "convert_with_interleaving_query" ->
                 Write(pass, m.new_key,
                       convert_with_interleaving_query(
                          old_state_dict[old_key], model.num_heads,
                          model.rotary_dim, from_index))
           [] m.action = "convert_with_interleaving_key" ->
                 Write(pass, m.new_key,
                       convert_with_interleaving_key(
                          old_state_dict[old_key], model, from_index))
           [] m.action = "convert_output_and_inv_freq" ->
                 convert_output_and_inv_freq(old_key, m.new_key,
                                             old_state_dict, pass,
                                             from_index, configs.cs)
           [] OTHER -> pass

\* convert_key: the first rule of the converter that matches the key
\* fires; a key that no rule matches is collected
convert_key(converter, old_key, old_state_dict, pass, from_index, configs) ==
    LET m == FirstMatch(RulesOf(converter), 1, old_key, <<>>, from_index) IN
    IF m.matched
    THEN Fire(m, old_key, old_state_dict, pass, from_index, configs)
    ELSE [pass EXCEPT !.unmatched = @ \cup {old_key}]

\* convert_all_keys: every key of old_state_dict, up to an exception
RECURSIVE convert_all_keys(_, _, _, _, _, _)
convert_all_keys(converter, keys, old_state_dict, pass, from_index, configs) ==
    IF keys = {} \/ pass.exc # "none" THEN pass
    ELSE LET key == CHOOSE k \in keys : TRUE IN
         convert_all_keys(converter, keys \ {key}, old_state_dict,
                          convert_key(converter, key, old_state_dict, pass,
                                      from_index, configs),
                          from_index, configs)

\* Converter_LlamaModel_HF_CS.post_model_convert, which
\* Converter_LlamaModel_HF_CS19 inherits
Llama_post_model_convert(converter, old_state_dict, pass, configs, from_index) ==
    LET model == configs.cs.model
        lm_head_weight ==
           IF configs.hf.tie_word_embeddings
           THEN IF <<"embed_tokens", "weight">> \in DOMAIN old_state_dict
                THEN old_state_dict[<<"embed_tokens", "weight">>]
                ELSE Raised("KeyError")
           ELSE normal_(<<model.vocab_size, model.hidden_size>>)
        with_weight == Write(pass, <<"lm_head", "weight">>, lm_head_weight)
    IN
    IF from_index # 0
       \/ converter \notin {"Converter_LlamaModel_HF_CS",
                            "Converter_LlamaModel_HF_CS19"}
    THEN pass
    ELSE IF with_weight.exc # "none" THEN with_weight
    ELSE IF model.use_bias_in_output
    THEN Write(with_weight, <<"lm_head", "bias">>,
               zeros(<<model.vocab_size>>))
    ELSE with_weight

\* one conversion of a state dict: the pass over its keys, the unmatched
\* keys raised unless they are dropped, then post_model_convert
convert(converter, old_state_dict, run, from_index) ==
    LET done == convert_all_keys(converter, DOMAIN old_state_dict,
                                 old_state_dict,
                                 Pass(EmptyDict, {}, "none"), from_index,
                                 run.configs)
    IN
    IF done.exc # "none" THEN done
    ELSE IF done.unmatched # {} /\ ~run.drop_unmatched_keys
    THEN [done EXCEPT !.exc = "ConversionError"]
    ELSE Llama_post_model_convert(converter, old_state_dict, done,
                                  run.configs, from_index)

(* The runs: a HF Llama checkpoint of NumLayers decoder layers, the two    *)
(* configs, and the converter class.                                       *)

LlamaConverters ==
    {"Converter_LlamaModel_HF_CS", "Converter_LlamaModel_HF_CS19",
     "Converter_LlamaForCausalLM_HF_CS",
     "Converter_LlamaForCausalLM_HF_CS19"}

\* the converters of the headless LlamaModel
ModelConverters ==
    {"Converter_LlamaModel_HF_CS", "Converter_LlamaModel_HF_CS19"}

StateDictHeads == {1, 2}
StateDictHeadSizes == {2, 4}

\* configs[0], configs[1] and drop_unmatched_keys, and what the HF
\* checkpoint holds: biases of the projections, inv_freq buffers, a key
\* that is not Llama's
StateDictRuns ==
    UNION {
      { [configs |->
            [hf |-> [tie_word_embeddings |-> tie],
             cs |-> [model |->
                        [hidden_size |-> H * hs, num_heads |-> H,
                         num_kv_groups |-> G, rotary_dim |-> r,
                         attention_module |-> att,
                         vocab_size |-> NumEmbeddings,
                         use_bias_in_output |-> ub]]],
         drop_unmatched_keys |-> drop, biases |-> b, buffers |-> buf,
         foreign |-> f, head_size |-> hs] :
           G \in { g \in 1..H : att = "aiayn_attention" => g = H },
           r \in {2, hs}, tie \in BOOLEAN, ub \in BOOLEAN,
           drop \in BOOLEAN, b \in BOOLEAN, buf \in BOOLEAN,
           f \in BOOLEAN } :
      H \in StateDictHeads, hs \in StateDictHeadSizes,
      att \in {"aiayn_attention", "multiquery_attention"} }

Item(key, tensor) == [key |-> key, tensor |-> tensor]

DictOf(items) ==
    [k \in { i.key : i \in items } |->
        (CHOOSE i \in items : i.key = k).tensor]

\* the keys and tensors of decoder layer n under a prefix
LayerItems(prefix, n, run) ==
    LET model == run.configs.cs.model
        layer == prefix \o <<"layers", ToString(n)>>
        suffixes == IF run.biases THEN {"weight", "bias"} ELSE {"weight"}
        T(rows, suffix, ord) ==
           ArangeFrom(<<rows>> \o TailOf(suffix),
                      1000 * n + 100 * ord
                         + (IF suffix = "bias" THEN 50 ELSE 0))
    IN
    { Item(layer \o <<"self_attn", "q_proj", s>>,
           T(model.num_heads * run.head_size, s, 1)) : s \in suffixes }
    \cup
    { Item(layer \o <<"self_attn", "k_proj", s>>,
           T(model.num_kv_groups * run.head_size, s, 2)) : s \in suffixes }
    \cup
    { Item(layer \o <<"self_attn", "v_proj", s>>,
           T(model.num_kv_groups * run.head_size, s, 3)) : s \in suffixes }
    \cup
    { Item(layer \o <<"self_attn", "o_proj", s>>, T(2, s, 4)) :
         s \in suffixes }
    \cup
    { Item(layer \o <<"input_layernorm", "weight">>, T(2, "bias", 5)),
      Item(layer \o <<"post_attention_layernorm", "weight">>,
           T(2, "bias", 6)),
      Item(layer \o <<"mlp.up_proj", "weight">>, T(2, "weight", 7)),
      Item(layer \o <<"mlp.gate_proj", "weight">>, T(2, "weight", 8)),
      Item(layer \o <<"mlp.down_proj", "weight">>, T(2, "weight", 9)) }
    \cup
    (IF run.buffers
     THEN { Item(layer \o <<"self_attn", "rotary_emb", "inv_freq">>,
                 inv_freq(run.head_size)) }
     ELSE {})

\* the state dict of a HF LlamaModel, or of a HF LlamaForCausalLM, whose
\* model is under "model." and which has a head
HFStateDict(converter, run) ==
    LET prefix == IF converter \in ModelConverters THEN <<>>
                  ELSE <<"model">>
    IN DictOf(
         UNION { LayerItems(prefix, n, run) : n \in 0..(NumLayers - 1) }
         \cup
         { Item(prefix \o <<"embed_tokens", "weight">>,
                ArangeFrom(<<NumEmbeddings, InDim>>, 10000)),
           Item(prefix \o <<"norm", "weight">>, ArangeFrom(<<2>>, 20000)) }
         \cup
         (IF converter \in ModelConverters THEN {}
          ELSE { Item(<<"lm_head", "weight">>,
                      ArangeFrom(<<NumEmbeddings, InDim>>, 30000)) })
         \cup
         (IF run.foreign
          THEN { Item(prefix \o <<"adapter", "weight">>,
                      ArangeFrom(<<2>>, 40000)) }
          ELSE {}))

StateDictInit ==
    /\ sd_converter \in LlamaConverters
    /\ sd_run \in { <<run>> : run \in StateDictRuns }
    /\ sd_hf = HFStateDict(sd_converter, sd_run[1])
    /\ sd_cs = <<>>
    /\ sd_back = <<>>
    /\ sd_call = [op |-> "none", exc |-> "none"]

\* convert HF -> CS (from_index 0)
ConvertHFtoCS ==
    /\ sd_run # <<>> /\ sd_call.op = "none"
    /\ LET pass == convert(sd_converter, sd_hf, sd_run[1], 0) IN
       /\ sd_cs' = <<pass>>
       /\ sd_call' = [op |-> "hf_to_cs", exc |-> pass.exc]
    /\ UNCHANGED <<sd_converter, sd_run, sd_hf, sd_back, besidesStateDict>>

\* convert the CS state dict produced back, CS -> HF (from_index 1)
ConvertCStoHF ==
    /\ sd_run # <<>> /\ sd_call = [op |-> "hf_to_cs", exc |-> "none"]
    /\ LET pass == convert(sd_converter, sd_cs[1].sd, sd_run[1], 1) IN
       /\ sd_back' = <<pass>>
       /\ sd_call' = [op |-> "cs_to_hf", exc |-> pass.exc]
    /\ UNCHANGED <<sd_converter, sd_run, sd_hf, sd_cs, besidesStateDict>>

StateDictStart ==
    /\ StateDictInit /\ ConfigIdle /\ RegistryIdle /\ LoaderIdle
    /\ WriterIdle /\ ReaderIdle /\ CtorIdle /\ CSWriter__init__ /\ SizeIdle
    /\ ConvertersIdle

StateDictNext == ConvertHFtoCS \/ ConvertCStoHF

StateDictSpec == StateDictStart /\ [][StateDictNext]_vars

\* the rule that claims a key of the converter of the run
MatchOf(key, from_index) ==
    FirstMatch(RulesOf(sd_converter), 1, key, <<>>, from_index)

\* the key converted alone into an empty new_state_dict
Alone(key, old_state_dict, from_index) ==
    convert_key(sd_converter, key, old_state_dict,
                Pass(EmptyDict, {}, "none"), from_index, sd_run[1].configs)

IsInvFreq(key) ==
    /\ Len(key) >= 2
    /\ key[Len(key)] = "inv_freq" /\ key[Len(key) - 1] = "rotary_emb"

\* lm_head.(weight|bias) or ln_f.(weight|bias) of the CS model
IsHeadOrLnF(key) ==
    /\ Len(key) = 2 /\ key[2] \in WeightOrBias
    /\ \/ key[1] = "ln_f"
       \/ (key[1] = "lm_head" /\ sd_converter \in ModelConverters)

Mentions(key, names) == \E i \in 1..Len(key) : key[i] \in names

\* C23: existence-only rules never materialize the other side in the Llama
\* model converter.  HF -> CS, a key layers.N.self_attn.rotary_emb.inv_freq
\* is matched by no rule of the nested attention converter, is claimed by
\* the exists="left" rule, writes no CS key and is not unmatched; CS -> HF,
\* the keys lm_head.(weight|bias) and ln_f.(weight|bias) are claimed by the
\* exists="right" rules, write no HF key and are not unmatched.
C23_ExistsRulesWriteNothing ==
    /\ sd_cs # <<>> =>
          \A key \in DOMAIN sd_hf :
             IsInvFreq(key) =>
                /\ ~FirstMatch(LlamaAttention_rules, 1,
                               <<"rotary_emb", "inv_freq">>, <<>>, 0).matched
                /\ MatchOf(key, 0).matched
                /\ MatchOf(key, 0).exists = "left"
                /\ Alone(key, sd_hf, 0) = Pass(EmptyDict, {}, "none")
                /\ key \notin sd_cs[1].unmatched
                /\ \A new \in DOMAIN sd_cs[1].sd :
                      ~Mentions(new, {"rotary_emb", "inv_freq"})
    /\ sd_back # <<>> =>
          \A key \in DOMAIN sd_cs[1].sd :
             IsHeadOrLnF(key) =>
                /\ MatchOf(key, 1).matched
                /\ MatchOf(key, 1).exists = "right"
                /\ Alone(key, sd_cs[1].sd, 1) = Pass(EmptyDict, {}, "none")
                /\ key \notin sd_back[1].unmatched
                /\ \A new \in DOMAIN sd_back[1].sd :
                      ~Mentions(new, {"ln_f"})
                      /\ (sd_converter \in ModelConverters
                             => ~Mentions(new, {"lm_head"}))

\* a headless checkpoint with inv_freq buffers went to CS, where the final
\* norm was copied to ln_f and a head with a bias was made, and back,
\* while a key that is not Llama's was unmatched in both passes
C23_Witness ==
    /\ sd_back # <<>> /\ sd_back[1].exc = "none"
    /\ sd_converter = "Converter_LlamaModel_HF_CS19"
    /\ \E key \in DOMAIN sd_hf : IsInvFreq(key)
    /\ {<<"ln_f", "weight">>, <<"lm_head", "weight">>,
        <<"lm_head", "bias">>} \subseteq DOMAIN sd_cs[1].sd
    /\ sd_cs[1].unmatched = {<<"adapter", "weight">>}
    /\ sd_back[1].unmatched = {}

\* a state dict a HF Llama model saves: no key of another model
ValidHF == sd_run # <<>> /\ ~sd_run[1].foreign

\* C21: Llama round trip.  Converting a valid HF state dict HF -> CS and
\* the result CS -> HF raises nothing and gives, for every key of the
\* original, the same key, with the same tensor unless the key is a
\* rotary_emb.inv_freq buffer, which is regenerated from rotary_dim; the
\* lm_head made for the headless model and the ln_f copy of the final norm
\* are not in the result.
C21_LlamaRoundTrip ==
    ValidHF =>
       /\ sd_cs # <<>> => sd_cs[1].exc = "none" /\ sd_cs[1].unmatched = {}
       /\ sd_back # <<>> =>
             /\ sd_back[1].exc = "none" /\ sd_back[1].unmatched = {}
             /\ \A key \in DOMAIN sd_hf :
                   /\ key \in DOMAIN sd_back[1].sd
                   /\ IF IsInvFreq(key)
                      THEN sd_back[1].sd[key]
                              = inv_freq(sd_run[1].configs.cs.model.rotary_dim)
                      ELSE sd_back[1].sd[key] = sd_hf[key]
             /\ \A key \in DOMAIN sd_back[1].sd :
                   \/ key \in DOMAIN sd_hf
                   \/ (IsInvFreq(key) /\ ~sd_run[1].buffers)

\* a checkpoint with biases, buffers and a head, two heads per kv group,
\* went to CS, where q and k were interleaved, and came back
C21_Witness ==
    /\ sd_back # <<>> /\ ValidHF
    /\ sd_converter = "Converter_LlamaForCausalLM_HF_CS19"
    /\ sd_run[1].biases /\ sd_run[1].buffers
    /\ sd_run[1].configs.cs.model.attention_module = "multiquery_attention"
    /\ sd_run[1].configs.cs.model.num_heads = 2
    /\ sd_run[1].configs.cs.model.num_kv_groups = 1
    /\ sd_run[1].configs.cs.model.rotary_dim = 4
    /\ \A p \in {"proj_q_dense_layer", "proj_k_dense_layer"} :
          LET cs == <<"transformer_decoder.layers", "0", "self_attn", p,
                      "weight">>
              hf == <<"model", "layers", "0", "self_attn",
                      IF p = "proj_q_dense_layer" THEN "q_proj"
                      ELSE "k_proj", "weight">>
          IN /\ cs \in DOMAIN sd_cs[1].sd
             /\ sd_cs[1].sd[cs] # sd_hf[hf]
             /\ sd_back[1].sd[hf] = sd_hf[hf]
    /\ <<"ln_f", "weight">> \in DOMAIN sd_cs[1].sd

====
